---- MODULE Spec2Model ----
(***************************************************************************)
(* Model of dalicli: the client (src/src/dalicli/api.py: target/zone        *)
(* membership resolution, scene discovery, device classification, list     *)
(* endpoints) and the command line (src/src/dalicli/cli.py: control        *)
(* payloads, scan wait, input validation, controller URL configuration),   *)
(* run against a controller that serves a device directory and per-device  *)
(* detail records.                                                         *)
(***************************************************************************)
EXTENDS Integers, Sequences, FiniteSets, TLC

VARIABLES
    zone,       \* the zone record handed to zone_members / zone_scene_numbers
    directory,  \* the controller's device listing (body of GET /devices)
    device,     \* the device record handed to device_scene_numbers / classify_device
    op,         \* the client call that ran last
    log,        \* the HTTP requests that call issued, in order, with their outcome
    result,     \* what that call returned
    prev,       \* what the call or run this one follows left behind (NoCall if none)
    args,       \* the parsed command line of the run, or the arguments of the call
    config,     \* the text of the config file (NoFile when there is none)
    tomllib,    \* whether the interpreter has tomllib (Python 3.11 and later)
    body,       \* the body of the list response the controller serves
    clock,      \* time.time(), in seconds
    start,      \* cmd_scan_wait: the time the wait started
    pc          \* cmd_scan_wait: where the polling loop stands

cliVars == <<args, config, tomllib, body, clock, start, pc>>

vars == <<zone, directory, device, op, log, result, prev, args, config, tomllib, body,
          clock, start, pc>>

(***************************************************************************)
(* Bounds of the model.                                                    *)
(***************************************************************************)
MaxTargets == 2     \* longest targets list of a zone
MaxScenes == 2      \* longest scenes list of the device handed to device_scene_numbers
MaxTypes == 2       \* longest daliTypes list of the device handed to classify_device
MaxListing == 3     \* longest device listing of the ordering runs
MaxPolls == 4       \* most status requests of one scan wait

(***************************************************************************)
(* JSON values.  A value carries its type tag, so that isinstance() is a   *)
(* test of the tag.  A string is the sequence of its characters.           *)
(***************************************************************************)
Null == [t |-> "null"]
Absent == [t |-> "absent"]
JInt(n) == [t |-> "int", v |-> n]
JStr(cs) == [t |-> "str", v |-> cs]

\* what a call or command leaves behind: its return code, or the exception that
\* ended it
Returned(code) == [exit |-> code]
Raised(exc) == [raised |-> exc]

\* isinstance(x, int)
IsInt(x) == x.t = "int"

\* dict.get(key): the value, None when the key is absent
Get(x) == IF x = Absent THEN Null ELSE x

\* d.get(key, default) on a device record
Field(d, k, default) == IF k \in DOMAIN d THEN d[k] ELSE default

\* str.lower(), on the letters A-Z
ToLower ==
    ("A" :> "a") @@ ("B" :> "b") @@ ("C" :> "c") @@ ("D" :> "d") @@
    ("E" :> "e") @@ ("F" :> "f") @@ ("G" :> "g") @@ ("H" :> "h") @@
    ("I" :> "i") @@ ("J" :> "j") @@ ("K" :> "k") @@ ("L" :> "l") @@
    ("M" :> "m") @@ ("N" :> "n") @@ ("O" :> "o") @@ ("P" :> "p") @@
    ("Q" :> "q") @@ ("R" :> "r") @@ ("S" :> "s") @@ ("T" :> "t") @@
    ("U" :> "u") @@ ("V" :> "v") @@ ("W" :> "w") @@ ("X" :> "x") @@
    ("Y" :> "y") @@ ("Z" :> "z")

LowerChar(c) == IF c \in DOMAIN ToLower THEN ToLower[c] ELSE c

RECURSIVE Lower(_)
Lower(cs) ==
    IF cs = <<>> THEN <<>> ELSE <<LowerChar(Head(cs))>> \o Lower(Tail(cs))

\* str.strip(): leading and trailing whitespace removed
Whitespace == {" ", "\t", "\n"}

RECURSIVE LStrip(_)
LStrip(cs) ==
    IF cs # <<>> /\ Head(cs) \in Whitespace THEN LStrip(Tail(cs)) ELSE cs

RECURSIVE RStrip(_)
RStrip(cs) ==
    IF cs # <<>> /\ cs[Len(cs)] \in Whitespace
    THEN RStrip(SubSeq(cs, 1, Len(cs) - 1))
    ELSE cs

Strip(cs) == RStrip(LStrip(cs))

\* str(x or ""): the characters of a string value, "" for None or a missing key
StrOrEmpty(x) == IF x.t = "str" THEN x.v ELSE <<>>

(***************************************************************************)
(* A Python dict, kept as the sequence of its items in insertion order.    *)
(***************************************************************************)
DictHas(dict, k) == \E i \in 1..Len(dict) : dict[i].key = k

DictGet(dict, k, default) ==
    IF DictHas(dict, k)
    THEN dict[CHOOSE i \in 1..Len(dict) : dict[i].key = k].val
    ELSE default

\* dict[k] = v: a new key goes last, a known key keeps its place
RECURSIVE DictPut(_, _, _)
DictPut(dict, k, v) ==
    IF dict = <<>> THEN <<[key |-> k, val |-> v]>>
    ELSE IF Head(dict).key = k THEN <<[key |-> k, val |-> v]>> \o Tail(dict)
    ELSE <<Head(dict)>> \o DictPut(Tail(dict), k, v)

\* dict.values()
RECURSIVE DictValues(_)
DictValues(dict) ==
    IF dict = <<>> THEN <<>> ELSE <<Head(dict).val>> \o DictValues(Tail(dict))

(***************************************************************************)
(* sorted(set of integers): ascending, one entry per element.              *)
(***************************************************************************)
SetMin(S) == CHOOSE m \in S : \A x \in S : m <= x

RECURSIVE SortedSet(_)
SortedSet(S) ==
    IF S = {} THEN <<>> ELSE <<SetMin(S)>> \o SortedSet(S \ {SetMin(S)})

(***************************************************************************)
(* Type names of targets (api.py:179-183).                                 *)
(***************************************************************************)
S_device == <<"d", "e", "v", "i", "c", "e">>
S_default == <<"d", "e", "f", "a", "u", "l", "t">>
S_group == <<"g", "r", "o", "u", "p">>
S_d16group == <<"d", "1", "6", "g", "r", "o", "u", "p">>
S_dali_group == <<"d", "a", "l", "i", "_", "g", "r", "o", "u", "p">>
S_dali_dash_group == <<"d", "a", "l", "i", "-", "g", "r", "o", "u", "p">>
S_broadcast == <<"b", "r", "o", "a", "d", "c", "a", "s", "t">>
S_all == <<"a", "l", "l">>

DeviceTypeNames == {<<>>, S_device, S_default}
GroupTypeNames == {S_group, S_d16group, S_dali_group, S_dali_dash_group}
BroadcastTypeNames == {S_broadcast, S_all}

(***************************************************************************)
(* device_scene_numbers (api.py:94-106).                                   *)
(***************************************************************************)
\* SceneKeyValues without the break: every integer value among the three keys
SceneKeyValues_NoBreak(s) ==
    (IF IsInt(Get(s.id)) THEN {Get(s.id).v} ELSE {})
        \cup (IF IsInt(Get(s.scene)) THEN {Get(s.scene).v} ELSE {})
        \cup (IF IsInt(Get(s.number)) THEN {Get(s.number).v} ELSE {})

\* the inner loop over ("id", "scene", "number"): the first integer value, then break
SceneKeyValues(s) ==
    IF IsInt(Get(s.id)) THEN {Get(s.id).v}
    ELSE IF IsInt(Get(s.scene)) THEN {Get(s.scene).v}
    ELSE IF IsInt(Get(s.number)) THEN {Get(s.number).v}
    ELSE {}

\* what one entry of the scenes list adds to out
SceneEntryValues(s) ==
    IF IsInt(s) THEN {s.v}
    ELSE IF s.t = "obj" THEN SceneKeyValues(s)
    ELSE {}

RECURSIVE SceneSet(_, _, _)
SceneSet(scenes, i, out) ==
    IF i > Len(scenes) THEN out
    ELSE SceneSet(scenes, i + 1, out \cup SceneEntryValues(scenes[i]))

\* the contributions of the entries in list order, neither sorted nor deduplicated
RECURSIVE SceneList(_)
SceneList(scenes) ==
    IF scenes = <<>> THEN <<>>
    ELSE (IF SceneEntryValues(Head(scenes)) = {} THEN <<>>
          ELSE <<CHOOSE n \in SceneEntryValues(Head(scenes)) : TRUE>>)
         \o SceneList(Tail(scenes))

device_scene_numbers_Unsorted(d) == SceneList(Field(d, "scenes", <<>>))

device_scene_numbers(d) == SortedSet(SceneSet(Field(d, "scenes", <<>>), 1, {}))

(***************************************************************************)
(* Target buckets: the loop over zone["targets"] that zone_members         *)
(* (api.py:170-184) and zone_scene_numbers (api.py:110-124) both run.      *)
(***************************************************************************)
\* is_broadcast before the loop: str(zone.get("name") or "").strip().lower() == "broadcast"
NameIsBroadcast(z) == Lower(Strip(StrOrEmpty(z.name))) = S_broadcast

\* ScanTarget with the type name compared as written (the .lower() left out)
ScanTarget_CaseSensitive(b, t) ==
    IF t.t # "obj" THEN b
    ELSE
        LET t_type == StrOrEmpty(Get(t.type))
            t_id == Get(t.id)
            b1 == IF IsInt(t_id)
                  THEN IF t_type \in DeviceTypeNames
                       THEN [b EXCEPT !.explicit_dev_ids = Append(@, t_id.v)]
                       ELSE IF t_type \in GroupTypeNames
                            THEN [b EXCEPT !.group_ids = Append(@, t_id.v)]
                            ELSE b
                  ELSE b
        IN  IF t_type \in BroadcastTypeNames
            THEN [b1 EXCEPT !.is_broadcast = TRUE]
            ELSE b1

\* one iteration of the loop over the targets
ScanTarget(b, t) ==
    IF t.t # "obj" THEN b
    ELSE
        LET t_type == Lower(StrOrEmpty(Get(t.type)))
            t_id == Get(t.id)
            b1 == IF IsInt(t_id)
                  THEN IF t_type \in DeviceTypeNames
                       THEN [b EXCEPT !.explicit_dev_ids = Append(@, t_id.v)]
                       ELSE IF t_type \in GroupTypeNames
                            THEN [b EXCEPT !.group_ids = Append(@, t_id.v)]
                            ELSE b
                  ELSE b
        IN  IF t_type \in BroadcastTypeNames
            THEN [b1 EXCEPT !.is_broadcast = TRUE]
            ELSE b1

RECURSIVE ScanTargets(_, _, _)
ScanTargets(ts, i, b) ==
    IF i > Len(ts) THEN b ELSE ScanTargets(ts, i + 1, ScanTarget(b, ts[i]))

Buckets(z) ==
    ScanTargets(z.targets, 1,
                [explicit_dev_ids |-> <<>>, group_ids |-> <<>>,
                 is_broadcast |-> NameIsBroadcast(z)])

\* (t.get("type") or "").lower() raises AttributeError: the type is a value
\* that is true in a test and is no string (a number other than 0, an object)
TypeRaises(t) ==
    /\ t.t = "obj"
    /\ \/ Get(t.type).t = "int" /\ Get(t.type).v # 0
       \/ Get(t.type).t = "obj"

\* the loop over the targets raises, before any request is issued
TargetsRaise(z) == \E i \in 1..Len(z.targets) : TypeRaises(z.targets[i])

\* x in list
InList(x, s) == \E i \in 1..Len(s) : s[i] = x

\* any(int(g) in group_ids for g in groups)
AnyGroupIn(groups, group_ids) == \E i \in 1..Len(groups) : InList(groups[i], group_ids)

(***************************************************************************)
(* HTTP requests, as the controller answers them.  GET /devices serves the *)
(* directory; GET /device/{id} serves the record of that id, and fails     *)
(* when the controller has no such device or when the transport fails.     *)
(***************************************************************************)
DevicesReq(ok) == [id |-> 0, ok |-> ok, req |-> "devices"]
DeviceReq(did, ok) == [id |-> did, ok |-> ok, req |-> "device"]

DirIds(dir) == {dir[i].id : i \in 1..Len(dir)}
DirRecord(dir, did) == dir[CHOOSE i \in 1..Len(dir) : dir[i].id = did]

\* does get_device(did) return (TRUE) or raise RequestException (FALSE)
DetailOk(dir, failing, did) == did \in DirIds(dir) /\ did \notin failing

(***************************************************************************)
(* zone_members (api.py:168-205).                                          *)
(***************************************************************************)
\* MembersStep with the second branch taken for group targets only ("elif group_ids:")
MembersStep_GroupsOnly(members, b, d) ==
    IF d.id \in {b.explicit_dev_ids[i] : i \in 1..Len(b.explicit_dev_ids)}
    THEN DictPut(members, d.id, d)
    ELSE IF b.group_ids # <<>>
         THEN IF b.is_broadcast \/ AnyGroupIn(Field(d, "groups", <<>>), b.group_ids)
              THEN DictPut(members, d.id, d)
              ELSE members
         ELSE members

\* MembersStep collecting into a list, one entry for each way the device is reached
MembersStep_List(members, b, d) ==
    LET item == [key |-> d.id, val |-> d]
        m1 == IF d.id \in {b.explicit_dev_ids[i] : i \in 1..Len(b.explicit_dev_ids)}
              THEN Append(members, item)
              ELSE members
    IN  IF b.is_broadcast \/ AnyGroupIn(Field(d, "groups", <<>>), b.group_ids)
        THEN Append(m1, item)
        ELSE m1

\* one iteration of the loop over root["devices"]
MembersStep(members, b, d) ==
    IF d.id \in {b.explicit_dev_ids[i] : i \in 1..Len(b.explicit_dev_ids)}
    THEN DictPut(members, d.id, d)
    ELSE IF b.group_ids # <<>> \/ b.is_broadcast
         THEN IF b.is_broadcast \/ AnyGroupIn(Field(d, "groups", <<>>), b.group_ids)
              THEN DictPut(members, d.id, d)
              ELSE members
         ELSE members

RECURSIVE MembersLoop(_, _, _, _)
MembersLoop(dir, i, b, members) ==
    IF i > Len(dir) THEN members
    ELSE MembersLoop(dir, i + 1, b, MembersStep(members, b, dir[i]))

\* the sort key taken as (address, line, id)
KeyLE_AddressFirst(x, y) ==
    LET xl == Field(x, "line", 0)       yl == Field(y, "line", 0)
        xa == Field(x, "address", 0)    ya == Field(y, "address", 0)
        xi == Field(x, "id", 0)         yi == Field(y, "id", 0)
    IN  \/ xa < ya
        \/ xa = ya /\ xl < yl
        \/ xa = ya /\ xl = yl /\ xi <= yi

\* the sort key (line, address, id), absent fields counting as 0
KeyLE(x, y) ==
    LET xl == Field(x, "line", 0)       yl == Field(y, "line", 0)
        xa == Field(x, "address", 0)    ya == Field(y, "address", 0)
        xi == Field(x, "id", 0)         yi == Field(y, "id", 0)
    IN  \/ xl < yl
        \/ xl = yl /\ xa < ya
        \/ xl = yl /\ xa = ya /\ xi <= yi

\* stable insertion of x into a list sorted by the key
RECURSIVE InsertByKey(_, _)
InsertByKey(s, x) ==
    IF s = <<>> THEN <<x>>
    ELSE IF KeyLE(Head(s), x) THEN <<Head(s)>> \o InsertByKey(Tail(s), x)
    ELSE <<x>> \o s

RECURSIVE SortedByKey(_)
SortedByKey(s) ==
    IF s = <<>> THEN <<>>
    ELSE InsertByKey(SortedByKey(SubSeq(s, 1, Len(s) - 1)), s[Len(s)])

\* the explicit ids as bare {"id": did} records
RECURSIVE ExplicitBare(_, _, _)
ExplicitBare(ids, i, members) ==
    IF i > Len(ids) THEN members
    ELSE ExplicitBare(ids, i + 1, DictPut(members, ids[i], [id |-> ids[i]]))

\* the members dict after the try block: empty when get_devices raised
MembersDict(z, dir, dirOk) ==
    IF dirOk THEN MembersLoop(dir, 1, Buckets(z), <<>>) ELSE <<>>

\* zone_members that, without a listing, still returns the explicit targets as bare records
zone_members_KeepExplicit(z, dir, dirOk) ==
    [log |-> <<DevicesReq(dirOk)>>,
     result |-> IF dirOk
                THEN SortedByKey(DictValues(MembersDict(z, dir, dirOk)))
                ELSE SortedByKey(DictValues(ExplicitBare(Buckets(z).explicit_dev_ids, 1, <<>>)))]

zone_members(z, dir, dirOk) ==
    IF TargetsRaise(z) THEN [log |-> <<>>, result |-> Raised("AttributeError")]
    ELSE [log |-> <<DevicesReq(dirOk)>>,
          result |-> SortedByKey(DictValues(MembersDict(z, dir, dirOk)))]

(***************************************************************************)
(* zone_scene_numbers (api.py:108-166).                                    *)
(***************************************************************************)
\* devices_index after the try block (api.py:127-134)
RECURSIVE IndexLoop(_, _, _)
IndexLoop(dir, i, index) ==
    IF i > Len(dir) THEN index
    ELSE IndexLoop(dir, i + 1, DictPut(index, dir[i].id, dir[i]))

DevicesIndex(dir, dirOk) == IF dirOk THEN IndexLoop(dir, 1, <<>>) ELSE <<>>

\* ExplicitStep that falls back to the bare {"id": did} record, the listing ignored
ExplicitStep_BareFallback(st, index, dir, failing, did) ==
    LET ok == DetailOk(dir, failing, did)
        d == IF ok THEN DirRecord(dir, did) ELSE [id |-> did]
    IN  [log |-> Append(st.log, DeviceReq(did, ok)),
         target_devs |-> DictPut(st.target_devs, did, d)]

\* one iteration of the loop over explicit_dev_ids (api.py:138-144)
ExplicitStep(st, index, dir, failing, did) ==
    LET ok == DetailOk(dir, failing, did)
        d == IF ok THEN DirRecord(dir, did) ELSE DictGet(index, did, [id |-> did])
    IN  [log |-> Append(st.log, DeviceReq(did, ok)),
         target_devs |-> DictPut(st.target_devs, did, d)]

RECURSIVE ExplicitLoop(_, _, _, _, _, _)
ExplicitLoop(ids, i, st, index, dir, failing) ==
    IF i > Len(ids) THEN st
    ELSE ExplicitLoop(ids, i + 1, ExplicitStep(st, index, dir, failing, ids[i]),
                      index, dir, failing)

\* GroupStep that takes the listing record and issues no detail request
GroupStep_NoFetch(st, b, dir, failing, d) ==
    IF b.is_broadcast \/ AnyGroupIn(Field(d, "groups", <<>>), b.group_ids)
    THEN IF ~DictHas(st.target_devs, d.id)
         THEN [log |-> st.log, target_devs |-> DictPut(st.target_devs, d.id, d)]
         ELSE st
    ELSE st

\* GroupStep that tests group membership only, the broadcast flag ignored
GroupStep_GroupsOnly(st, b, dir, failing, d) ==
    IF AnyGroupIn(Field(d, "groups", <<>>), b.group_ids)
    THEN IF ~DictHas(st.target_devs, d.id)
         THEN LET ok == DetailOk(dir, failing, d.id)
                  d2 == IF ok THEN DirRecord(dir, d.id) ELSE d
              IN  [log |-> Append(st.log, DeviceReq(d.id, ok)),
                   target_devs |-> DictPut(st.target_devs, d.id, d2)]
         ELSE st
    ELSE st

\* one iteration of the loop over devices_index.values() (api.py:147-160)
GroupStep(st, b, dir, failing, d) ==
    IF b.is_broadcast \/ AnyGroupIn(Field(d, "groups", <<>>), b.group_ids)
    THEN IF ~DictHas(st.target_devs, d.id)
         THEN LET ok == DetailOk(dir, failing, d.id)
                  d2 == IF ok THEN DirRecord(dir, d.id) ELSE d
              IN  [log |-> Append(st.log, DeviceReq(d.id, ok)),
                   target_devs |-> DictPut(st.target_devs, d.id, d2)]
         ELSE st
    ELSE st

RECURSIVE GroupLoop(_, _, _, _, _, _)
GroupLoop(values, i, st, b, dir, failing) ==
    IF i > Len(values) THEN st
    ELSE GroupLoop(values, i + 1, GroupStep(st, b, dir, failing, values[i]),
                   b, dir, failing)

\* target_devs and the requests issued, after both loops
GroupPass(st1, b, index, dir, failing) ==
    IF b.group_ids # <<>> \/ b.is_broadcast
    THEN GroupLoop(DictValues(index), 1, st1, b, dir, failing)
    ELSE st1

TargetDevsFrom(b, index, dir, dirOk, failing) ==
    GroupPass(ExplicitLoop(b.explicit_dev_ids, 1,
                           [log |-> <<DevicesReq(dirOk)>>, target_devs |-> <<>>],
                           index, dir, failing),
              b, index, dir, failing)

TargetDevs(z, dir, dirOk, failing) ==
    TargetDevsFrom(Buckets(z), DevicesIndex(dir, dirOk), dir, dirOk, failing)

\* numbers: the scene numbers of every record of target_devs (api.py:162-166)
RECURSIVE NumbersLoop(_, _, _)
NumbersLoop(values, i, numbers) ==
    IF i > Len(values) THEN numbers
    ELSE LET ns == device_scene_numbers(values[i])
         IN  NumbersLoop(values, i + 1, numbers \cup {ns[j] : j \in 1..Len(ns)})

zone_scene_numbers(z, dir, dirOk, failing) ==
    LET st == TargetDevs(z, dir, dirOk, failing)
    IN  IF TargetsRaise(z) THEN [log |-> <<>>, result |-> Raised("AttributeError")]
        ELSE [log |-> st.log,
              result |-> SortedSet(NumbersLoop(DictValues(st.target_devs), 1, {}))]

\* the device ids zone_scene_numbers asks the detail of; the outcome of a request
\* that is never issued cannot be observed
RequestedIds(z, dir, dirOk) ==
    LET l == zone_scene_numbers(z, dir, dirOk, {}).log
    IN  {l[i].id : i \in 2..Len(l)}

(***************************************************************************)
(* classify_device (api.py:499-541).                                       *)
(***************************************************************************)
TypeColor == 8
TypeLed == 6
TypeIncandescent == 4
TypeRelay == 7

\* tset = set(int(x) for x in types if isinstance(x, int))
TypeSet(types) == {types[i].v : i \in {j \in 1..Len(types) : IsInt(types[j])}}

\* kinds, in the order the four tests append to it
Kinds(tset) ==
    (IF TypeColor \in tset THEN <<"color">> ELSE <<>>) \o
    (IF TypeLed \in tset THEN <<"led">> ELSE <<>>) \o
    (IF TypeIncandescent \in tset THEN <<"incandescent">> ELSE <<>>) \o
    (IF TypeRelay \in tset THEN <<"relay">> ELSE <<>>)

\* the priority list turned around
priority_Reversed == <<"relay", "incandescent", "led", "color">>

priority == <<"color", "led", "incandescent", "relay">>

\* next((k for k in priority if k in kinds), None), None replaced by "unknown"
KindOf(kinds) ==
    IF \E i \in 1..Len(priority) : InList(priority[i], kinds)
    THEN priority[CHOOSE i \in 1..Len(priority) :
                      /\ InList(priority[i], kinds)
                      /\ \A j \in 1..(i - 1) : ~InList(priority[j], kinds)]
    ELSE "unknown"

\* classify_device that also infers dimming and switching from the feature keys
classify_device_FeatureFallback(d) ==
    LET tset == TypeSet(Field(d, "daliTypes", <<>>))
        feats == DOMAIN Field(d, "features", <<>>)
    IN  [kind |-> KindOf(Kinds(tset)),
         supports_switch |-> TypeRelay \in tset \/ "switchable" \in feats,
         supports_dim |-> TypeColor \in tset \/ TypeLed \in tset \/ TypeIncandescent \in tset
                              \/ "dimmable" \in feats,
         supports_color |-> TypeColor \in tset]

classify_device(d) ==
    LET tset == TypeSet(Field(d, "daliTypes", <<>>))
    IN  [kind |-> KindOf(Kinds(tset)),
         supports_switch |-> TypeRelay \in tset,
         supports_dim |-> TypeColor \in tset \/ TypeLed \in tset \/ TypeIncandescent \in tset,
         supports_color |-> TypeColor \in tset]

(***************************************************************************)
(* Control payloads built by the command line (cli.py).  fade is           *)
(* args.fade; "args.fade and args.fade > 0" is the fade test of every      *)
(* command.                                                                *)
(***************************************************************************)
\* the fade test without its "> 0" half
WithFade_Nonzero(fade) == fade # 0

WithFade(fade) == fade # 0 /\ fade > 0

\* _device_on that never asks for the capability
device_on_payload_DimOnly(cls, fade) ==
    IF WithFade(fade)
    THEN [dimmableWithFade |-> [dimValue |-> 100, fadeTime |-> fade]]
    ELSE [dimmable |-> 100]

\* _device_on (cli.py:387-393)
device_on_payload(cls, fade) ==
    IF cls.kind = "relay" /\ ~cls.supports_dim
    THEN [switchable |-> TRUE]
    ELSE IF WithFade(fade)
         THEN [dimmableWithFade |-> [dimValue |-> 100, fadeTime |-> fade]]
         ELSE [dimmable |-> 100]

\* _device_off (cli.py:407-413)
device_off_payload(cls, fade) ==
    IF cls.kind = "relay" /\ ~cls.supports_dim
    THEN [switchable |-> FALSE]
    ELSE IF WithFade(fade)
         THEN [dimmableWithFade |-> [dimValue |-> 0, fadeTime |-> fade]]
         ELSE [dimmable |-> 0]

\* _zone_recall (cli.py:531-534)
zone_recall_payload(scene, fade) ==
    IF WithFade(fade)
    THEN [sceneWithFade |-> [scene |-> scene, fadeTime |-> fade]]
    ELSE [scene |-> scene]

\* _zone_on that sends the switch key only
zone_on_payload_SwitchOnly(fade) == [switchable |-> TRUE]

\* _zone_on (cli.py:600-603)
zone_on_payload(fade) ==
    IF WithFade(fade)
    THEN [dimmableWithFade |-> [dimValue |-> 100, fadeTime |-> fade], switchable |-> TRUE]
    ELSE [dimmable |-> 100, switchable |-> TRUE]

\* _zone_off (cli.py:615-618)
zone_off_payload(fade) ==
    IF WithFade(fade)
    THEN [dimmableWithFade |-> [dimValue |-> 0, fadeTime |-> fade], switchable |-> FALSE]
    ELSE [dimmable |-> 0, switchable |-> FALSE]

\* _all_off (cli.py:452-455)
all_off_payload(fade) ==
    IF WithFade(fade)
    THEN [dimmableWithFade |-> [dimValue |-> 0, fadeTime |-> fade], switchable |-> FALSE]
    ELSE [dimmable |-> 0, switchable |-> FALSE]

\* a POST to a control endpoint: control_device, control_zone (id: the
\* device or zone) and control_broadcast (id 0, line: the _line parameter)
ControlReq(kind, id, ok, line, payload) ==
    [id |-> id, ok |-> ok, req |-> kind, line |-> line, payload |-> payload]

(***************************************************************************)
(* Inputs: zones, device directories and device records.                   *)
(***************************************************************************)
\* a target that is a JSON object with the keys type and id (Absent: no such key)
Target(type, id) == [t |-> "obj", id |-> id, type |-> type]

\* a scene entry that is a JSON object with the keys id, scene, number
SceneObj(id, scene, number) == [t |-> "obj", id |-> id, scene |-> scene, number |-> number]

TargetPool ==
    { Target(Absent, JInt(1)),
      Target(JStr(<<"D", "e", "v", "i", "c", "e">>), JInt(2)),
      Target(JStr(S_default), JInt(3)),
      Target(JStr(S_group), JInt(1)),
      Target(JStr(<<"D", "1", "6", "G", "r", "o", "u", "p">>), JInt(2)),
      Target(JStr(S_dali_group), JInt(2)),
      Target(JStr(S_dali_dash_group), JInt(3)),
      Target(JStr(<<"B", "r", "o", "a", "d", "c", "a", "s", "t">>), JInt(1)),
      Target(JStr(<<"A", "L", "L">>), Absent),
      Target(JStr(<<"z", "o", "n", "e">>), JInt(1)),
      Target(JStr(S_device), JStr(<<"1">>)),
      JStr(<<"1">>) }

ZoneNames ==
    { JStr(<<"H", "a", "l", "l">>),
      JStr(<<" ", "B", "r", "o", "a", "d", "C", "A", "S", "T", "\t">>),
      Null }

\* the lists of at most n entries of pool
RECURSIVE ListsUpTo(_, _)
ListsUpTo(pool, n) ==
    IF n = 0 THEN {<<>>}
    ELSE LET shorter == ListsUpTo(pool, n - 1)
         IN  shorter \cup {Append(l, x) : l \in shorter, x \in pool}

TargetLists == ListsUpTo(TargetPool, MaxTargets)

Zones == [name : ZoneNames, targets : TargetLists]

Dev1 ==
    [id |-> 1,
     scenes |-> <<JInt(3), SceneObj(JInt(5), Absent, Absent)>>,
     groups |-> <<1>>, line |-> 0, address |-> 5]

Dev2 ==
    [id |-> 2,
     scenes |-> <<JInt(5), SceneObj(Absent, JInt(7), Absent)>>,
     groups |-> <<1, 2>>, line |-> 0, address |-> 2]

Dev3 ==
    [id |-> 3,
     scenes |-> <<SceneObj(Absent, Absent, JInt(9)), JStr(<<"x">>)>>,
     address |-> 1]

Directories == { <<Dev1, Dev2, Dev3>>, <<Dev3, Dev2>>, <<>> }

SceneEntryPool ==
    { JInt(3), JInt(5), JInt(9),
      SceneObj(JInt(5), Absent, Absent),
      SceneObj(Absent, JInt(7), Absent),
      SceneObj(Absent, Absent, JInt(9)),
      SceneObj(JInt(5), JInt(7), JInt(9)),
      SceneObj(JStr(<<"5">>), JInt(7), JInt(9)),
      SceneObj(Null, Absent, JInt(1)),
      SceneObj(JStr(<<"5">>), Null, Absent),
      SceneObj(Absent, Absent, Absent),
      JStr(<<"3">>),
      Null }

SceneLists == ListsUpTo(SceneEntryPool, MaxScenes)

SceneDevices == {[id |-> 1]} \cup {[id |-> 1, scenes |-> ss] : ss \in SceneLists}

TypeEntryPool ==
    { JInt(TypeIncandescent), JInt(TypeLed), JInt(TypeRelay), JInt(TypeColor),
      JInt(1), JStr(<<"6">>), Null }

TypeLists == ListsUpTo(TypeEntryPool, MaxTypes)

FeatureSets == { [switchable |-> TRUE], [dimmable |-> 50] }

TypedDevices ==
    {[id |-> 1, features |-> f] : f \in FeatureSets}
        \cup {[id |-> 1, features |-> f, daliTypes |-> ts] : f \in FeatureSets, ts \in TypeLists}

NoCall == [called |-> FALSE]
HallZoneName == JStr(<<"H", "a", "l", "l">>)
NoZone == [name |-> Null, targets |-> <<>>]

(***************************************************************************)
(* Initial states: the inputs are fixed, no call has run yet.              *)
(***************************************************************************)
NoArgs == [cmd |-> "none"]
NoFile == [t |-> "absent"]
NoBody == [t |-> "null"]

\* the command-line state of a run that only calls the client
NoCommandLine ==
    /\ args = NoArgs
    /\ config = NoFile
    /\ tomllib = TRUE
    /\ body = NoBody
    /\ clock = 0
    /\ start = 0
    /\ pc = "idle"

NoCallYet ==
    /\ op = "init"
    /\ log = <<>>
    /\ result = <<>>
    /\ prev = NoCall

InitResolve ==
    /\ zone \in Zones
    /\ directory \in Directories
    /\ device = Dev1
    /\ NoCallYet
    /\ NoCommandLine

InitScenes ==
    /\ zone = NoZone
    /\ directory = <<>>
    /\ device \in SceneDevices
    /\ NoCallYet
    /\ NoCommandLine

InitClassify ==
    /\ zone = NoZone
    /\ directory = <<>>
    /\ device \in TypedDevices
    /\ NoCallYet
    /\ NoCommandLine

Init == InitResolve \/ InitScenes \/ InitClassify

(***************************************************************************)
(* The client calls.  A run of the command line makes one call on the      *)
(* inputs it was started with (cli.py, main); zone_members may be run once *)
(* more on the same zone, its first result kept in prev.                   *)
(***************************************************************************)
NotRunYet == op = "init"

ZoneMembersCall ==
    /\ NotRunYet \/ (op = "zone_members" /\ ~prev.called)
    /\ \E dirOk \in BOOLEAN :
       \E r \in {zone_members(zone, directory, dirOk)} :
        /\ op' = "zone_members"
        /\ log' = r.log
        /\ result' = r.result
        /\ prev' = IF op = "zone_members"
                   THEN [log |-> log, result |-> result, called |-> TRUE]
                   ELSE NoCall
        /\ UNCHANGED <<zone, directory, device>>
        /\ UNCHANGED cliVars

ZoneSceneNumbersCall ==
    /\ NotRunYet
    /\ \E dirOk \in BOOLEAN :
       \E failing \in SUBSET RequestedIds(zone, directory, dirOk) :
       \E r \in {zone_scene_numbers(zone, directory, dirOk, failing)} :
        /\ op' = "zone_scene_numbers"
        /\ log' = r.log
        /\ result' = r.result
        /\ prev' = NoCall
        /\ UNCHANGED <<zone, directory, device>>
        /\ UNCHANGED cliVars

DeviceSceneNumbersCall ==
    /\ NotRunYet
    /\ op' = "device_scene_numbers"
    /\ log' = <<>>
    /\ result' = device_scene_numbers(device)
    /\ prev' = NoCall
    /\ UNCHANGED <<zone, directory, device>>
    /\ UNCHANGED cliVars

ClassifyDeviceCall ==
    /\ NotRunYet
    /\ op' = "classify_device"
    /\ log' = <<>>
    /\ result' = classify_device(device)
    /\ prev' = NoCall
    /\ UNCHANGED <<zone, directory, device>>
    /\ UNCHANGED cliVars

(***************************************************************************)
(* Control commands (cli.py: devices on/off, zones recall/on/off,          *)
(* all-off).  The device the controller serves under args.id is device;    *)
(* directory and zone are what the controller holds, which the zone and    *)
(* broadcast commands never read.                                          *)
(***************************************************************************)
FadeValues == {0, 2, -1}

CmdArgs(cmd, id, fade, scene, line) ==
    [id |-> id, scene |-> scene, fade |-> fade, line |-> line, cmd |-> cmd]

DeviceControlArgs ==
    {CmdArgs(c, 1, f, 0, Null) : c \in {"device_on", "device_off"}, f \in FadeValues}

RecallArgs == {CmdArgs("zone_recall", 1, f, n, Null) : f \in FadeValues, n \in {0, 5}}

FanOutArgs ==
    {CmdArgs(c, 1, f, 0, Null) : c \in {"zone_on", "zone_off"}, f \in FadeValues}
        \cup {CmdArgs("all_off", 0, f, 0, l) : f \in FadeValues, l \in {Null, JInt(1)}}

RelayDev == [id |-> 4, groups |-> <<1>>, line |-> 0, address |-> 1, daliTypes |-> <<JInt(TypeRelay)>>]
LedDev == [id |-> 5, groups |-> <<1>>, line |-> 0, address |-> 2, daliTypes |-> <<JInt(TypeLed)>>]
ColorDev ==
    [id |-> 6, groups |-> <<2>>, line |-> 1, address |-> 1,
     daliTypes |-> <<JInt(TypeColor), JInt(TypeRelay)>>]

FanOutDirectories == { <<RelayDev, LedDev, ColorDev>>, <<RelayDev, LedDev>>, <<LedDev>>, <<>> }

FanOutZones ==
    { [name |-> JStr(<<"H", "a", "l", "l">>), targets |-> <<Target(JStr(S_group), JInt(1))>>],
      [name |-> JStr(<<"H", "a", "l", "l">>), targets |-> <<Target(JStr(S_broadcast), Absent)>>] }

InitControl ==
    /\ \/ /\ args \in DeviceControlArgs
          /\ device \in TypedDevices
          /\ directory = <<>>
          /\ zone = NoZone
       \/ /\ args \in RecallArgs \cup FanOutArgs
          /\ device = Dev1
          /\ directory \in FanOutDirectories
          /\ zone \in FanOutZones
    /\ config = NoFile
    /\ tomllib = TRUE
    /\ body = NoBody
    /\ clock = 0
    /\ start = 0
    /\ pc = "idle"
    /\ NoCallYet

\* what every control command leaves alone
ControlFrame ==
    /\ prev' = NoCall
    /\ UNCHANGED <<zone, directory, device>>
    /\ UNCHANGED cliVars

\* _device_on that sends the dimming payload when the detail request failed
DeviceOn_ControlAnyway ==
    /\ NotRunYet
    /\ args.cmd = "device_on"
    /\ op' = "device_on"
    /\ \E getOk \in BOOLEAN, ctlOk \in BOOLEAN :
        /\ log' = <<DeviceReq(args.id, getOk),
                    ControlReq("control_device", args.id, ctlOk, Null,
                               IF getOk
                               THEN device_on_payload(classify_device(device), args.fade)
                               ELSE [dimmable |-> 100])>>
        /\ result' = IF ctlOk THEN Returned(0) ELSE Raised("RequestException")
    /\ ControlFrame

\* _device_on (cli.py:382-396)
DeviceOn ==
    /\ NotRunYet
    /\ args.cmd = "device_on"
    /\ op' = "device_on"
    /\ \E getOk \in BOOLEAN, ctlOk \in BOOLEAN :
        IF ~getOk
        THEN /\ log' = <<DeviceReq(args.id, FALSE)>>
             /\ result' = Raised("RequestException")
        ELSE /\ log' = <<DeviceReq(args.id, TRUE),
                         ControlReq("control_device", args.id, ctlOk, Null,
                                    device_on_payload(classify_device(device), args.fade))>>
             /\ result' = IF ctlOk THEN Returned(0) ELSE Raised("RequestException")
    /\ ControlFrame

\* _device_off (cli.py:402-416)
DeviceOff ==
    /\ NotRunYet
    /\ args.cmd = "device_off"
    /\ op' = "device_off"
    /\ \E getOk \in BOOLEAN, ctlOk \in BOOLEAN :
        IF ~getOk
        THEN /\ log' = <<DeviceReq(args.id, FALSE)>>
             /\ result' = Raised("RequestException")
        ELSE /\ log' = <<DeviceReq(args.id, TRUE),
                         ControlReq("control_device", args.id, ctlOk, Null,
                                    device_off_payload(classify_device(device), args.fade))>>
             /\ result' = IF ctlOk THEN Returned(0) ELSE Raised("RequestException")
    /\ ControlFrame

\* _zone_recall (cli.py:529-537)
ZoneRecall ==
    /\ NotRunYet
    /\ args.cmd = "zone_recall"
    /\ op' = "zone_recall"
    /\ \E ctlOk \in BOOLEAN :
        /\ log' = <<ControlReq("control_zone", args.id, ctlOk, Null,
                               zone_recall_payload(args.scene, args.fade))>>
        /\ result' = IF ctlOk THEN Returned(0) ELSE Raised("RequestException")
    /\ ControlFrame

\* _zone_on (cli.py:597-606)
ZoneOn ==
    /\ NotRunYet
    /\ args.cmd = "zone_on"
    /\ op' = "zone_on"
    /\ \E ctlOk \in BOOLEAN :
        /\ log' = <<ControlReq("control_zone", args.id, ctlOk, Null, zone_on_payload(args.fade))>>
        /\ result' = IF ctlOk THEN Returned(0) ELSE Raised("RequestException")
    /\ ControlFrame

\* _zone_off (cli.py:612-621)
ZoneOff ==
    /\ NotRunYet
    /\ args.cmd = "zone_off"
    /\ op' = "zone_off"
    /\ \E ctlOk \in BOOLEAN :
        /\ log' = <<ControlReq("control_zone", args.id, ctlOk, Null, zone_off_payload(args.fade))>>
        /\ result' = IF ctlOk THEN Returned(0) ELSE Raised("RequestException")
    /\ ControlFrame

\* _all_off (cli.py:450-458)
AllOff ==
    /\ NotRunYet
    /\ args.cmd = "all_off"
    /\ op' = "all_off"
    /\ \E ctlOk \in BOOLEAN :
        /\ log' = <<ControlReq("control_broadcast", 0, ctlOk, args.line, all_off_payload(args.fade))>>
        /\ result' = IF ctlOk THEN Returned(0) ELSE Raised("RequestException")
    /\ ControlFrame

NextControl ==
    \/ DeviceOn
    \/ DeviceOff
    \/ ZoneRecall
    \/ ZoneOn
    \/ ZoneOff
    \/ AllOff

SpecControl == InitControl /\ [][NextControl]_vars

(***************************************************************************)
(* Ordering runs of zone_members: listings in every order of devices       *)
(* whose line or address is missing, ties on (line, address) among them.   *)
(***************************************************************************)
OrderDevA == [id |-> 1, line |-> 1, address |-> 0]
OrderDevB == [id |-> 2, address |-> 3]
OrderDevC == [id |-> 3, line |-> 0, address |-> 3]
OrderDevD == [id |-> 4, line |-> 0]

OrderPool == {OrderDevA, OrderDevB, OrderDevC, OrderDevD}

\* the lists of at most n entries of pool, no entry twice
RECURSIVE Arrangements(_, _)
Arrangements(pool, n) ==
    IF n = 0 THEN {<<>>}
    ELSE LET shorter == Arrangements(pool, n - 1)
         IN  shorter \cup
             {Append(p[1], p[2]) :
                 p \in {q \in shorter \X pool :
                          \A i \in 1..Len(q[1]) : q[1][i] # q[2]}}

OrderDirectories == Arrangements(OrderPool, MaxListing)

OrderZones ==
    { [name |-> Null, targets |-> <<Target(JStr(S_broadcast), Absent)>>],
      [name |-> Null, targets |-> <<Target(JStr(S_device), JInt(1)), Target(Absent, JInt(4)),
                                    Target(JStr(S_device), JInt(2))>>],
      [name |-> Null, targets |-> <<Target(Absent, JInt(3)), Target(JStr(S_device), JInt(2)),
                                    Target(JStr(S_device), JInt(1))>>] }

InitOrder ==
    /\ zone \in OrderZones
    /\ directory \in OrderDirectories
    /\ device = Dev1
    /\ NoCallYet
    /\ NoCommandLine

SpecOrder == InitOrder /\ [][ZoneMembersCall]_vars

(***************************************************************************)
(* scan wait (cli.py:260-291): the polling loop of cmd_scan_wait.           *)
(***************************************************************************)
S_completed == <<"c", "o", "m", "p", "l", "e", "t", "e", "d">>
S_complete == <<"c", "o", "m", "p", "l", "e", "t", "e">>
S_done == <<"d", "o", "n", "e">>
S_idle == <<"i", "d", "l", "e">>
S_none == <<"n", "o", "n", "e">>
S_stopped == <<"s", "t", "o", "p", "p", "e", "d">>
S_canceled == <<"c", "a", "n", "c", "e", "l", "e", "d">>
S_cancelled == <<"c", "a", "n", "c", "e", "l", "l", "e", "d">>
S_error == <<"e", "r", "r", "o", "r">>

\* the status sets of cli.py:279 and cli.py:281
SuccessTerminal == {S_completed, S_complete, S_done}
OtherTerminal == {S_idle, S_none, S_stopped, S_canceled, S_cancelled, S_error}

\* a GET /dali/scan
ScanReq(ok) == [id |-> 0, ok |-> ok, req |-> "scan"]

\* a status response: a JSON object with the key status (Absent: no such key)
StatusBody(status) == [t |-> "obj", status |-> status]

\* (st.get("status") or "") taken as it is
scan_status_CaseSensitive(st) == StrOrEmpty(Get(st.status))

\* (st.get("status") or "").lower()   (cli.py:274)
scan_status(st) == Lower(StrOrEmpty(Get(st.status)))

\* args.timeout and (time.time() - start) > args.timeout   (cli.py:283)
TimedOut(now) == args.timeout # 0 /\ (now - start) > args.timeout

StatusBodies ==
    { StatusBody(JStr(S_completed)),
      StatusBody(JStr(<<"D", "o", "n", "e">>)),
      StatusBody(JStr(<<"C", "O", "M", "P", "L", "E", "T", "E">>)),
      StatusBody(JStr(<<"I", "d", "l", "e">>)),
      StatusBody(JStr(<<"C", "a", "n", "c", "e", "l", "l", "e", "d">>)),
      StatusBody(JStr(S_error)),
      StatusBody(JStr(<<"r", "u", "n", "n", "i", "n", "g">>)),
      StatusBody(JStr(<<"S", "c", "a", "n", "n", "i", "n", "g">>)),
      StatusBody(JStr(<<>>)),
      StatusBody(Null),
      StatusBody(Absent) }

\* seconds a status request takes
PollTimes == {0, 1}

WaitArgs(timeout, interval) == [cmd |-> "scan_wait", timeout |-> timeout, interval |-> interval]

ScanWaitArgs == {WaitArgs(t, i) : t \in {0, 2, 3}, i \in {1, 2}}

InitScanWait ==
    /\ zone = NoZone
    /\ directory = <<>>
    /\ device = Dev1
    /\ args \in ScanWaitArgs
    /\ config = NoFile
    /\ tomllib = TRUE
    /\ body = NoBody
    /\ clock = 0
    /\ start = 0
    /\ pc = "idle"
    /\ NoCallYet

\* cmd_scan_wait up to the loop (cli.py:261-264); op is the command running
ScanWaitStart ==
    /\ NotRunYet
    /\ args.cmd = "scan_wait"
    /\ pc = "idle"
    /\ op' = "scan_wait"
    /\ start' = clock
    /\ pc' = "poll"
    /\ UNCHANGED <<zone, directory, device, log, result, prev, args, config, tomllib, body, clock>>

\* one status request that raises (cli.py:266-270): body keeps last_status
ScanPollError ==
    /\ pc = "poll"
    /\ Len(log) < MaxPolls
    /\ \E d \in PollTimes : clock' = clock + d
    /\ log' = Append(log, ScanReq(FALSE))
    /\ pc' = "error_sleep"
    /\ UNCHANGED <<zone, directory, device, op, result, prev, args, config, tomllib, body, start>>

\* one status request that is answered, and the tests on it (cli.py:266-285);
\* leaving the loop, the command returns 0 (cli.py:288-291)
ScanPollStatus ==
    /\ pc = "poll"
    /\ Len(log) < MaxPolls
    /\ \E d \in PollTimes, st \in StatusBodies :
        /\ clock' = clock + d
        /\ body' = st
        /\ log' = Append(log, ScanReq(TRUE))
        /\ IF scan_status(st) \in SuccessTerminal
           THEN pc' = "done" /\ result' = Returned(0)
           ELSE IF scan_status(st) \in OtherTerminal
           THEN pc' = "done" /\ result' = Returned(0)
           ELSE IF TimedOut(clock')
           THEN pc' = "done" /\ result' = Returned(0)
           ELSE pc' = "sleep" /\ result' = result
    /\ UNCHANGED <<zone, directory, device, op, prev, args, config, tomllib, start>>

\* time.sleep(args.interval); continue   (cli.py:271-272)
ScanSleepAfterError ==
    /\ pc = "error_sleep"
    /\ clock' = clock + args.interval
    /\ pc' = "poll"
    /\ UNCHANGED <<zone, directory, device, op, log, result, prev, args, config, tomllib, body, start>>

\* time.sleep(args.interval)   (cli.py:286)
ScanSleep ==
    /\ pc = "sleep"
    /\ clock' = clock + args.interval
    /\ pc' = "poll"
    /\ UNCHANGED <<zone, directory, device, op, log, result, prev, args, config, tomllib, body, start>>

NextScanWait ==
    \/ ScanWaitStart
    \/ ScanPollError
    \/ ScanPollStatus
    \/ ScanSleepAfterError
    \/ ScanSleep

SpecScanWait == InitScanWait /\ [][NextScanWait]_vars

(***************************************************************************)
(* List responses (api.py:243-261, 286-323, 374-382 and their callers).    *)
(* body is the body of the 200 response the controller gives to the list   *)
(* request of the run.                                                     *)
(***************************************************************************)
\* a JSON object with the one key key, a JSON array, a body that is not JSON
JObject(key, val) == [t |-> "obj", key |-> key, val |-> val]
JList(items) == [t |-> "list", v |-> items]
EmptyBody == [t |-> "empty"]
InvalidBody == [t |-> "invalid"]

\* r.json() raises ValueError on these
Unparsable(b) == b.t \in {"empty", "invalid"}

\* data.get(key) on a JSON object
ObjGet(data, key) == IF data.key = key THEN data.val ELSE Null

\* what a client call hands back: a value, or the exception it raises
Value(x) == [value |-> x]

\* the wrapper-or-array test shared by the automation list calls
\* (api.py:257-261, 300-304, 319-323, 378-382)
ItemsOf(data, key) ==
    IF data.t = "obj" /\ ObjGet(data, key).t = "list"
    THEN ObjGet(data, key).v
    ELSE IF data.t = "list" THEN data.v ELSE <<>>

\* list_schedules (api.py:252-261): r.json() is not guarded
list_schedules(b) ==
    IF Unparsable(b) THEN Raised("ValueError") ELSE Value(ItemsOf(b, "schedulers"))

\* get_trigger_actions (api.py:292-304)
get_trigger_actions(b) ==
    IF Unparsable(b) THEN Value(<<>>) ELSE Value(ItemsOf(b, "triggerActions"))

\* get_sequences (api.py:311-323)
get_sequences(b) ==
    IF Unparsable(b) THEN Value(<<>>) ELSE Value(ItemsOf(b, "sequences"))

\* get_circadians (api.py:374-382): r.json() is not guarded
get_circadians(b) ==
    IF Unparsable(b) THEN Raised("ValueError") ELSE Value(ItemsOf(b, "circadians"))

\* get_timezones (api.py:243-249): data.get("timezones", []) or the body itself
get_timezones(b) ==
    IF Unparsable(b) THEN Raised("ValueError")
    ELSE IF b.t = "obj"
         THEN IF b.key = "timezones"
              THEN IF b.val.t = "list" THEN Value(b.val.v) ELSE Value(b.val)
              ELSE Value(<<>>)
         ELSE IF b.t = "list" THEN Value(b.v) ELSE Value(b)

\* the sensors of _sensors_list (cli.py:631-633): get_sensors, then
\* data.get("sensors") if isinstance(data, dict) else data, then "or []"
sensors_list(b) ==
    IF Unparsable(b) THEN Raised("ValueError")
    ELSE IF b.t = "obj"
         THEN IF b.key = "sensors" /\ b.val.t = "list" THEN Value(b.val.v) ELSE Value(<<>>)
         ELSE IF b.t = "list" THEN Value(b.v) ELSE Value(<<>>)

\* root.get(key, []) on the parsed body of get_devices / get_zones, iterated
\* (api.py:130, 190; cli.py:469): only a JSON object has .get
RootGet(data, key) ==
    IF data.t = "obj"
    THEN IF data.key = key THEN Value(data.val.v) ELSE Value(<<>>)
    ELSE Raised("AttributeError")

IsValue(r) == "value" \in DOMAIN r

\* a GET of a list endpoint, answered 200
ListReq(path) == [id |-> 0, ok |-> TRUE, req |-> path]

ListArgs(cmd) == [cmd |-> cmd]

AutomationCmds ==
    {"list_schedules", "get_trigger_actions", "get_sequences", "get_circadians",
     "get_timezones", "sensors_list"}

DirectoryCmds == {"zone_members_body", "zone_scene_numbers_body", "zones_list"}

\* the wrapper key of each list response
WrapperKey ==
    [c \in AutomationCmds \cup DirectoryCmds |->
        CASE c = "list_schedules" -> "schedulers"
          [] c = "get_trigger_actions" -> "triggerActions"
          [] c = "get_sequences" -> "sequences"
          [] c = "get_circadians" -> "circadians"
          [] c = "get_timezones" -> "timezones"
          [] c = "sensors_list" -> "sensors"
          [] c = "zones_list" -> "zones"
          [] OTHER -> "devices"]

PlainItemLists == { <<>>, <<[id |-> 1]>>, <<[id |-> 1], [id |-> 2]>> }
DeviceItemLists == { <<>>, <<Dev1>>, <<Dev2, Dev1>> }

\* wrapped, wrapped under another key, and bare
ShapesOf(key, lists) ==
    {JObject(key, JList(l)) : l \in lists}
        \cup {JObject("data", JList(l)) : l \in lists}
        \cup {JList(l) : l \in lists}

AutomationBodies(key) ==
    ShapesOf(key, PlainItemLists) \cup {JObject(key, Null), Null, EmptyBody, InvalidBody}

ListZone ==
    [name |-> JStr(<<"H", "a", "l", "l">>),
     targets |-> <<Target(JStr(S_device), JInt(1)), Target(JStr(S_group), JInt(2))>>]

InitLists ==
    /\ \/ /\ args \in {ListArgs(c) : c \in AutomationCmds}
          /\ body \in AutomationBodies(WrapperKey[args.cmd])
          /\ zone = NoZone
       \/ /\ args \in {ListArgs(c) : c \in DirectoryCmds}
          /\ body \in ShapesOf(WrapperKey[args.cmd], DeviceItemLists)
          /\ zone = ListZone
    /\ directory = <<>>
    /\ device = Dev1
    /\ config = NoFile
    /\ tomllib = TRUE
    /\ clock = 0
    /\ start = 0
    /\ pc = "idle"
    /\ NoCallYet

\* what every list call leaves alone
ListFrame ==
    /\ prev' = NoCall
    /\ UNCHANGED <<zone, directory, device>>
    /\ UNCHANGED cliVars

ListSchedulesCall ==
    /\ NotRunYet
    /\ args.cmd = "list_schedules"
    /\ op' = "list_schedules"
    /\ log' = <<ListReq("schedules")>>
    /\ result' = list_schedules(body)
    /\ ListFrame

GetTriggerActionsCall ==
    /\ NotRunYet
    /\ args.cmd = "get_trigger_actions"
    /\ op' = "get_trigger_actions"
    /\ log' = <<ListReq("triggerActions")>>
    /\ result' = get_trigger_actions(body)
    /\ ListFrame

GetSequencesCall ==
    /\ NotRunYet
    /\ args.cmd = "get_sequences"
    /\ op' = "get_sequences"
    /\ log' = <<ListReq("sequences")>>
    /\ result' = get_sequences(body)
    /\ ListFrame

GetCircadiansCall ==
    /\ NotRunYet
    /\ args.cmd = "get_circadians"
    /\ op' = "get_circadians"
    /\ log' = <<ListReq("circadians")>>
    /\ result' = get_circadians(body)
    /\ ListFrame

GetTimezonesCall ==
    /\ NotRunYet
    /\ args.cmd = "get_timezones"
    /\ op' = "get_timezones"
    /\ log' = <<ListReq("timezones")>>
    /\ result' = get_timezones(body)
    /\ ListFrame

\* _sensors_list up to the table (cli.py:629-633)
SensorsListCmd ==
    /\ NotRunYet
    /\ args.cmd = "sensors_list"
    /\ op' = "sensors_list"
    /\ log' = <<ListReq("sensors")>>
    /\ result' = sensors_list(body)
    /\ ListFrame

\* zone_members on the body of GET /devices (api.py:186-205)
ZoneMembersOnBody ==
    /\ NotRunYet
    /\ args.cmd = "zone_members_body"
    /\ op' = "zone_members_body"
    /\ log' = <<DevicesReq(TRUE)>>
    /\ \E r \in {RootGet(body, "devices")} :
        result' = IF IsValue(r) THEN Value(zone_members(zone, r.value, TRUE).result) ELSE r
    /\ ListFrame

\* zone_scene_numbers on the body of GET /devices (api.py:127-166), the
\* detail requests all answered
ZoneSceneNumbersOnBody ==
    /\ NotRunYet
    /\ args.cmd = "zone_scene_numbers_body"
    /\ op' = "zone_scene_numbers_body"
    /\ \E r \in {RootGet(body, "devices")} :
        IF IsValue(r)
        THEN \E z \in {zone_scene_numbers(zone, r.value, TRUE, {})} :
                /\ log' = z.log
                /\ result' = Value(z.result)
        ELSE /\ log' = <<DevicesReq(TRUE)>>
             /\ result' = r
    /\ ListFrame

\* _zones_list up to the output (cli.py:466-469)
ZonesListCmd ==
    /\ NotRunYet
    /\ args.cmd = "zones_list"
    /\ op' = "zones_list"
    /\ log' = <<ListReq("zones")>>
    /\ result' = RootGet(body, "zones")
    /\ ListFrame

NextLists ==
    \/ ListSchedulesCall
    \/ GetTriggerActionsCall
    \/ GetSequencesCall
    \/ GetCircadiansCall
    \/ GetTimezonesCall
    \/ SensorsListCmd
    \/ ZoneMembersOnBody
    \/ ZoneSceneNumbersOnBody
    \/ ZonesListCmd

SpecLists == InitLists /\ [][NextLists]_vars

(***************************************************************************)
(* Commands that create automations (cli.py:705-715, 828-858, 1020-1037,   *)
(* 1047-1078, 1158-1171) and the input they check first.                   *)
(***************************************************************************)
Digits ==
    ("0" :> 0) @@ ("1" :> 1) @@ ("2" :> 2) @@ ("3" :> 3) @@ ("4" :> 4) @@
    ("5" :> 5) @@ ("6" :> 6) @@ ("7" :> 7) @@ ("8" :> 8) @@ ("9" :> 9)

\* int(s) succeeds: on the characters the inputs use, a nonempty run of digits
IntParses(cs) == cs # <<>> /\ \A i \in 1..Len(cs) : cs[i] \in DOMAIN Digits

\* int(s)
RECURSIVE IntOf(_)
IntOf(cs) ==
    IF cs = <<>> THEN 0
    ELSE 10 * IntOf(SubSeq(cs, 1, Len(cs) - 1)) + Digits[cs[Len(cs)]]

\* s.split(":", 1): the pieces around the first colon, one piece when there is none
SplitColon(cs) ==
    IF \E i \in 1..Len(cs) : cs[i] = ":"
    THEN LET k == CHOOSE i \in 1..Len(cs) :
                      cs[i] = ":" /\ \A j \in 1..(i - 1) : cs[j] # ":"
         IN  <<SubSeq(cs, 1, k - 1), SubSeq(cs, k + 1, Len(cs))>>
    ELSE <<cs>>

\* "a, b = s.split(":", 1); int(a); int(b)" goes through
PairParses(cs) ==
    /\ Len(SplitColon(cs)) = 2
    /\ IntParses(SplitColon(cs)[1])
    /\ IntParses(SplitColon(cs)[2])

\* _collect_targets (cli.py:102-112), for --device and --broadcast
RECURSIVE DeviceTargetsOf(_)
DeviceTargetsOf(ids) ==
    IF ids = <<>> THEN <<>>
    ELSE <<Target(JStr(S_device), JInt(Head(ids)))>> \o DeviceTargetsOf(Tail(ids))

collect_targets(a) ==
    DeviceTargetsOf(a.device)
        \o (IF a.broadcast THEN <<Target(JStr(S_broadcast), Absent)>> ELSE <<>>)

\* the sources of --src-device and of --src-d16gear (cli.py:124-125, 128-132)
RECURSIVE SourceDevices(_)
SourceDevices(ids) ==
    IF ids = <<>> THEN <<>>
    ELSE <<[id |-> Head(ids), type |-> "device"]>> \o SourceDevices(Tail(ids))

RECURSIVE SourceGears(_)
SourceGears(items) ==
    IF items = <<>> THEN <<>>
    ELSE <<[type |-> "d16gear",
            line |-> IntOf(SplitColon(Head(items))[1]),
            address |-> IntOf(SplitColon(Head(items))[2])]>> \o SourceGears(Tail(items))

\* _collect_sources (cli.py:122-137): the sources, or SystemExit at the first
\* line:address item that does not parse
collect_sources(a) ==
    IF \A i \in 1..Len(a.src_d16gear) : PairParses(a.src_d16gear[i])
    THEN Value(SourceDevices(a.src_device) \o SourceGears(a.src_d16gear))
    ELSE Raised("SystemExit")

\* a file named on the command line: missing, not JSON, or holding a JSON value
MissingFile == [t |-> "missing"]
InvalidFile == [t |-> "invalid"]
NoOption == [t |-> "absent"]

\* with open(path) as f: json.load(f)
LoadJson(f) ==
    IF f = MissingFile THEN Raised("OSError")
    ELSE IF f = InvalidFile THEN Raised("ValueError")
    ELSE Value(f)

\* a POST that creates an automation
CreateReq(kind, ok, model) == [id |-> 0, ok |-> ok, req |-> kind, payload |-> model]

\* minutes as recallTime (cli.py:1032, 1063, 1067)
RecallTime(minutes) == [hour |-> minutes \div 60, minute |-> minutes % 60, second |-> 0]

Abs(n) == IF n < 0 THEN -n ELSE n

\* line:address and HH:MM strings of the command lines
S_1c2 == <<"1", ":", "2">>
S_12 == <<"1", "2">>
S_ac3 == <<"a", ":", "3">>
S_1c2c3 == <<"1", ":", "2", ":", "3">>
S_0730 == <<"0", "7", ":", "3", "0">>
S_7c5 == <<"7", ":", "5">>
S_0730plain == <<"0", "7", "3", "0">>
S_abccd == <<"a", "b", ":", "c", "d">>
S_7c5c3 == <<"7", ":", "5", ":", "3">>
S_25c99 == <<"2", "5", ":", "9", "9">>

\* the target options of a command line
DeviceOptions == { <<>>, <<1>>, <<1, 2>> }

TriggerArgs ==
    {[device |-> d, name |-> <<>>, cmd |-> "trigger_create", broadcast |-> b,
      src_d16gear |-> sg, src_device |-> sd, enabled |-> TRUE] :
        sd \in { <<>>, <<3>> },
        sg \in { <<>>, <<S_1c2>>, <<S_12>>, <<S_1c2, S_ac3>>, <<S_1c2c3>> },
        d \in DeviceOptions, b \in BOOLEAN}

SequenceArgs ==
    {[device |-> d, scene |-> 5, name |-> <<>>, cmd |-> "sequence_create", broadcast |-> b,
      enabled |-> TRUE, step |-> st, delay |-> 0, steps_json |-> f] :
        d \in DeviceOptions, b \in BOOLEAN,
        st \in {"none", "on", "off", "scene"},
        f \in {NoOption, MissingFile, InvalidFile, JList(<<>>)}}

CurveFiles == {MissingFile, InvalidFile, JObject("curve", Null)}

CircadianArgs ==
    {[device |-> d, name |-> <<>>, cmd |-> "circadian_create", broadcast |-> b,
      enabled |-> TRUE, longest_json |-> lf, shortest_json |-> sf] :
        d \in DeviceOptions, b \in BOOLEAN, lf \in CurveFiles, sf \in CurveFiles}

DuskArgs ==
    {[device |-> d, name |-> <<>>, cmd |-> "schedule_add_dusk", broadcast |-> b,
      offset_min |-> m] :
        d \in DeviceOptions, b \in BOOLEAN, m \in {0, -30, 90}}

\* --time, --before-sunrise, --after-sunrise: one of the three is given
OffChoices ==
    {[time |-> JStr(t), before_sunrise |-> Null, after_sunrise |-> Null] :
        t \in {S_0730, S_7c5, S_0730plain, S_abccd, S_7c5c3, S_25c99, <<>>}}
      \cup {[time |-> Null, before_sunrise |-> JInt(45), after_sunrise |-> Null],
            [time |-> Null, before_sunrise |-> Null, after_sunrise |-> JInt(-90)],
            [time |-> Null, before_sunrise |-> Null, after_sunrise |-> JInt(0)]}

OffArgs ==
    {[device |-> d, name |-> <<>>, cmd |-> "schedule_add_off", broadcast |-> b, time |-> c.time,
      before_sunrise |-> c.before_sunrise, after_sunrise |-> c.after_sunrise] :
        d \in DeviceOptions, b \in BOOLEAN, c \in OffChoices}

InitInput ==
    /\ args \in TriggerArgs \cup SequenceArgs \cup CircadianArgs \cup DuskArgs \cup OffArgs
    /\ zone = NoZone
    /\ directory = <<>>
    /\ device = Dev1
    /\ config = NoFile
    /\ tomllib = TRUE
    /\ body = NoBody
    /\ clock = 0
    /\ start = 0
    /\ pc = "idle"
    /\ NoCallYet

\* what every create command leaves alone
CreateFrame ==
    /\ prev' = NoCall
    /\ UNCHANGED <<zone, directory, device>>
    /\ UNCHANGED cliVars

\* the POST of a create command and the way the command ends after it
Posted(kind, model) ==
    \E ok \in BOOLEAN :
        /\ log' = <<CreateReq(kind, ok, model)>>
        /\ result' = IF ok THEN Returned(0) ELSE Raised("RequestException")

\* the command ends with r before any request
EndsWith(r) == log' = <<>> /\ result' = r

\* _trigger_create (cli.py:705-715)
TriggerCreate ==
    /\ NotRunYet
    /\ args.cmd = "trigger_create"
    /\ op' = "trigger_create"
    /\ \E sources \in {collect_sources(args)}, targets \in {collect_targets(args)} :
        IF ~IsValue(sources) THEN EndsWith(sources)
        ELSE IF sources.value = <<>> \/ targets = <<>> THEN EndsWith(Returned(2))
        ELSE Posted("create_trigger_action",
                    [name |-> args.name, targets |-> targets, enabled |-> args.enabled,
                     sources |-> sources.value])
    /\ CreateFrame

\* the features of the single step (cli.py:848-853)
StepFeatures(a) ==
    IF a.step = "on" THEN [switchable |-> TRUE]
    ELSE IF a.step = "off" THEN [switchable |-> FALSE]
    ELSE [scene |-> a.scene]

\* _sequence_create (cli.py:828-858)
SequenceCreate ==
    /\ NotRunYet
    /\ args.cmd = "sequence_create"
    /\ op' = "sequence_create"
    /\ \E tgts \in {collect_targets(args)}, loaded \in {LoadJson(args.steps_json)} :
        IF args.steps_json # NoOption
        THEN IF ~IsValue(loaded) THEN EndsWith(loaded)
             ELSE Posted("create_sequence",
                         [name |-> args.name, enabled |-> args.enabled, steps |-> loaded.value])
        ELSE IF args.step = "none" THEN EndsWith(Returned(2))
        ELSE IF tgts = <<>> THEN EndsWith(Returned(2))
        ELSE Posted("create_sequence",
                    [name |-> args.name, enabled |-> args.enabled,
                     steps |-> <<[type |-> "features",
                                  data |-> [targets |-> tgts, features |-> StepFeatures(args)],
                                  delay |-> args.delay]>>])
    /\ CreateFrame

\* _circadian_create (cli.py:1158-1171)
CircadianCreate ==
    /\ NotRunYet
    /\ args.cmd = "circadian_create"
    /\ op' = "circadian_create"
    /\ \E targets \in {collect_targets(args)},
          longest \in {LoadJson(args.longest_json)},
          shortest \in {LoadJson(args.shortest_json)} :
        IF targets = <<>> THEN EndsWith(Returned(2))
        ELSE IF ~IsValue(longest) THEN EndsWith(longest)
        ELSE IF ~IsValue(shortest) THEN EndsWith(shortest)
        ELSE Posted("create_circadian",
                    [name |-> args.name, targets |-> targets, enabled |-> args.enabled,
                     longest |-> longest.value, shortest |-> shortest.value])
    /\ CreateFrame

\* the schedule model of the two helpers (cli.py:1027-1034, 1068-1075)
ScheduleModel(a, targets, mode, rtime, switch) ==
    [name |-> a.name, targets |-> targets, enabled |-> TRUE,
     recallMode |-> mode, recallTime |-> rtime,
     action |-> [type |-> "features", data |-> [switchable |-> switch]]]

\* _schedule_add_dusk (cli.py:1020-1037)
ScheduleAddDusk ==
    /\ NotRunYet
    /\ args.cmd = "schedule_add_dusk"
    /\ op' = "schedule_add_dusk"
    /\ Posted("create_schedule",
              ScheduleModel(args, collect_targets(args),
                            IF args.offset_min >= 0 THEN "afterSunset" ELSE "beforeSunset",
                            RecallTime(Abs(args.offset_min)), TRUE))
    /\ CreateFrame

\* _schedule_add_off (cli.py:1047-1078)
ScheduleAddOff ==
    /\ NotRunYet
    /\ args.cmd = "schedule_add_off"
    /\ op' = "schedule_add_off"
    /\ \E targets \in {collect_targets(args)} :
        IF args.time # Null /\ args.time.v # <<>>
        THEN IF PairParses(args.time.v)
             THEN Posted("create_schedule",
                         ScheduleModel(args, targets, "timeOfDay",
                                       [hour |-> IntOf(SplitColon(args.time.v)[1]),
                                        minute |-> IntOf(SplitColon(args.time.v)[2]),
                                        second |-> 0], FALSE))
             ELSE EndsWith(Returned(2))
        ELSE IF args.before_sunrise # Null
        THEN Posted("create_schedule",
                    ScheduleModel(args, targets, "beforeSunrise",
                                  RecallTime(Abs(args.before_sunrise.v)), FALSE))
        ELSE Posted("create_schedule",
                    ScheduleModel(args, targets, "afterSunrise",
                                  RecallTime(Abs(IF args.after_sunrise = Null
                                                 THEN 0 ELSE args.after_sunrise.v)), FALSE))
    /\ CreateFrame

NextInput ==
    \/ TriggerCreate
    \/ SequenceCreate
    \/ CircadianCreate
    \/ ScheduleAddDusk
    \/ ScheduleAddOff

SpecInput == InitInput /\ [][NextInput]_vars

(***************************************************************************)
(* The controller URL: the config file (cli.py:29-71), its resolution      *)
(* (cli.py:74-92), `config controller set-url` / `get-url`                 *)
(* (cli.py:1337-1358) and main (cli.py:1429-1438).  The file is the        *)
(* sequence of its characters; a loaded config is a function from keys to  *)
(* values, a table being a function of its own.                            *)
(***************************************************************************)
EmptyDict == <<>>
Table(d) == [t |-> "table", v |-> d]
IsTable(x) == x.t = "table"

\* d[k] = v
Put(d, k, v) == [x \in (DOMAIN d) \cup {k} |-> IF x = k THEN v ELSE d[x]]

\* the config file with the given text
File(text) == [t |-> "file", v |-> text]

\* s.find(c) + 1: the place of the first c, 0 when there is none
Find(cs, c) ==
    IF \E i \in 1..Len(cs) : cs[i] = c
    THEN CHOOSE i \in 1..Len(cs) : cs[i] = c /\ \A j \in 1..(i - 1) : cs[j] # c
    ELSE 0

\* "\n".join(lines)
RECURSIVE JoinLines(_)
JoinLines(lines) ==
    IF lines = <<>> THEN <<>>
    ELSE IF Len(lines) = 1 THEN lines[1]
    ELSE lines[1] \o <<"\n">> \o JoinLines(Tail(lines))

\* the lines of a text (the line break is "\n")
RECURSIVE SplitLines(_)
SplitLines(text) ==
    IF text = <<>> THEN <<>>
    ELSE IF Find(text, "\n") = 0 THEN <<text>>
    ELSE <<SubSeq(text, 1, Find(text, "\n") - 1)>>
             \o SplitLines(SubSeq(text, Find(text, "\n") + 1, Len(text)))

\* s.strip(chars)
RECURSIVE StripChars(_, _)
StripChars(cs, chars) ==
    IF cs # <<>> /\ Head(cs) \in chars THEN StripChars(Tail(cs), chars)
    ELSE IF cs # <<>> /\ cs[Len(cs)] \in chars
    THEN StripChars(SubSeq(cs, 1, Len(cs) - 1), chars)
    ELSE cs

S_controller == <<"c", "o", "n", "t", "r", "o", "l", "l", "e", "r">>
S_url == <<"u", "r", "l">>
S_header == <<"[">> \o S_controller \o <<"]">>
S_urlAssign == <<"u", "r", "l", " ", "=", " ", "\"">>

\* _save_config (cli.py:59-71): the text written for cfg.  The url is the
\* str() that _cfg_set_url stored, put between two quotes as it is.
save_config(cfg) ==
    LET ctrl == IF S_controller \in DOMAIN cfg /\ IsTable(cfg[S_controller])
                THEN cfg[S_controller].v ELSE EmptyDict
    IN  IF ctrl = EmptyDict THEN <<>>
        ELSE JoinLines(<<S_header>>
                         \o (IF S_url \in DOMAIN ctrl
                             THEN <<S_urlAssign \o ctrl[S_url].v \o <<"\"">> >>
                             ELSE <<>>)
                         \o << <<>> >>)

\* the characters of a TOML bare key
BareKeyChars ==
    (DOMAIN ToLower) \cup {ToLower[c] : c \in DOMAIN ToLower} \cup (DOMAIN Digits) \cup {"_", "-"}

IsBareKey(cs) == cs # <<>> /\ \A i \in 1..Len(cs) : cs[i] \in BareKeyChars

\* nothing but blanks and a comment is left on the line
OnlyCommentLeft(cs) == LStrip(cs) = <<>> \/ Head(LStrip(cs)) = "#"

\* the escapes of a TOML basic string that the files use (b, f, r, u and U
\* are escapes too)
EscapeOf == ("\"" :> "\"") @@ ("\\" :> "\\") @@ ("n" :> "\n") @@ ("t" :> "\t")

\* a TOML basic string, read from behind its opening quote: the string and
\* what follows its closing quote, or an error
RECURSIVE BasicString(_, _)
BasicString(cs, acc) ==
    IF cs = <<>> THEN Raised("TOMLDecodeError")
    ELSE IF Head(cs) = "\"" THEN Value(<<acc, Tail(cs)>>)
    ELSE IF Head(cs) = "\\"
    THEN IF Len(cs) >= 2 /\ cs[2] \in DOMAIN EscapeOf
         THEN BasicString(SubSeq(cs, 3, Len(cs)), Append(acc, EscapeOf[cs[2]]))
         ELSE Raised("TOMLDecodeError")
    ELSE BasicString(Tail(cs), Append(acc, Head(cs)))

\* a TOML value: a basic string or an integer, the two kinds the files hold
TomlValue(cs) ==
    IF cs # <<>> /\ Head(cs) = "\""
    THEN LET s == BasicString(Tail(cs), <<>>)
         IN  IF IsValue(s) /\ OnlyCommentLeft(s.value[2])
             THEN Value(JStr(s.value[1]))
             ELSE Raised("TOMLDecodeError")
    ELSE LET k == Find(cs, "#")
             digits == Strip(IF k = 0 THEN cs ELSE SubSeq(cs, 1, k - 1))
         IN  IF IntParses(digits) THEN Value(JInt(IntOf(digits)))
             ELSE Raised("TOMLDecodeError")

\* tomllib.load on files of [table] headers, key = value lines, comments and
\* blank lines: the config, or an error.  sec is the table being filled
\* (<<>> for the top level).
RECURSIVE TomlLines(_, _, _)
TomlLines(lines, cfg, sec) ==
    IF lines = <<>> THEN Value(cfg)
    ELSE LET s == Strip(Head(lines))
             close == Find(s, "]")
             name == Strip(SubSeq(s, 2, close - 1))
             eq == Find(s, "=")
             key == Strip(SubSeq(s, 1, eq - 1))
             val == TomlValue(LStrip(SubSeq(s, eq + 1, Len(s))))
         IN  IF s = <<>> \/ Head(s) = "#" THEN TomlLines(Tail(lines), cfg, sec)
             ELSE IF Head(s) = "["
             THEN IF /\ close # 0
                     /\ IsBareKey(name)
                     /\ OnlyCommentLeft(SubSeq(s, close + 1, Len(s)))
                     /\ name \notin DOMAIN cfg
                  THEN TomlLines(Tail(lines), Put(cfg, name, Table(EmptyDict)), name)
                  ELSE Raised("TOMLDecodeError")
             ELSE IF eq = 0 \/ ~IsBareKey(key) \/ ~IsValue(val)
             THEN Raised("TOMLDecodeError")
             ELSE IF sec = <<>>
             THEN IF key \in DOMAIN cfg THEN Raised("TOMLDecodeError")
                  ELSE TomlLines(Tail(lines), Put(cfg, key, val.value), sec)
             ELSE IF key \in DOMAIN cfg[sec].v THEN Raised("TOMLDecodeError")
             ELSE TomlLines(Tail(lines),
                            Put(cfg, sec, Table(Put(cfg[sec].v, key, val.value))), sec)

\* the parser used when tomllib is missing (cli.py:33-51).  sec is None
\* (Null) or the name of the section being filled.
RECURSIVE FallbackLines(_, _, _)
FallbackLines(lines, cfg, sec) ==
    IF lines = <<>> THEN cfg
    ELSE LET s == Strip(Head(lines))
             name == Strip(StripChars(s, {"[", "]"}))
             eq == Find(s, "=")
             k == Strip(SubSeq(s, 1, eq - 1))
             v == StripChars(Strip(SubSeq(s, eq + 1, Len(s))), {"\""})
         IN  IF s = <<>> \/ Head(s) = "#" THEN FallbackLines(Tail(lines), cfg, sec)
             ELSE IF Head(s) = "[" /\ s[Len(s)] = "]"
             THEN FallbackLines(Tail(lines),
                                IF name \in DOMAIN cfg THEN cfg
                                ELSE Put(cfg, name, Table(EmptyDict)),
                                JStr(name))
             ELSE IF eq # 0 /\ sec # Null /\ sec.v # <<>>
             THEN FallbackLines(Tail(lines),
                                IF IsTable(cfg[sec.v])
                                THEN Put(cfg, sec.v, Table(Put(cfg[sec.v].v, k, JStr(v))))
                                ELSE cfg,
                                sec)
             ELSE FallbackLines(Tail(lines), cfg, sec)

\* _load_config (cli.py:29-56): {} when there is no file or it does not load
load_config(file, lib) ==
    IF file = NoFile THEN EmptyDict
    ELSE IF lib
    THEN LET loaded == TomlLines(SplitLines(file.v), EmptyDict, <<>>)
         IN  IF IsValue(loaded) THEN loaded.value ELSE EmptyDict
    ELSE FallbackLines(SplitLines(file.v), EmptyDict, Null)

\* what _resolve_base_url returns: the URL and where it came from
Resolved(url, source) == [url |-> url, source |-> source]

\* cfg.get("controller", {}).get("url"), None when that raises
ConfigUrl(cfg) ==
    IF S_controller \notin DOMAIN cfg THEN Null
    ELSE IF ~IsTable(cfg[S_controller]) THEN Null
    ELSE IF S_url \notin DOMAIN cfg[S_controller].v THEN Null
    ELSE cfg[S_controller].v[S_url]

\* _resolve_base_url (cli.py:74-92)
resolve_base_url(arg_url, file, lib) ==
    IF arg_url # Null /\ arg_url.v # <<>> THEN Value(Resolved(arg_url.v, "arg"))
    ELSE LET cfg_url == ConfigUrl(load_config(file, lib))
         IN  IF cfg_url.t = "str" /\ cfg_url.v # <<>>
             THEN Value(Resolved(cfg_url.v, "config"))
             ELSE Raised("SystemExit")

\* the config that _cfg_set_url saves (cli.py:1340-1343)
cfg_set_url(cfg, url) ==
    LET base == IF S_controller \notin DOMAIN cfg \/ ~IsTable(cfg[S_controller])
                THEN Put(cfg, S_controller, Table(EmptyDict))
                ELSE cfg
    IN  Put(base, S_controller, Table(Put(base[S_controller].v, S_url, JStr(url))))

\* URLs given on the command line
U_a == <<"h", "t", "t", "p", ":", "/", "/", "a">>
U_b == <<"h", "t", "t", "p", ":", "/", "/", "b">>
U_quote == U_a \o <<"\"", "b">>
U_backslash == U_a \o <<"\\", "c">>
U_backslashes == U_a \o <<"\\", "\\", "c">>
U_hash == U_a \o <<"\"", " ", "#">>
U_endQuote == U_a \o <<"\"">>
U_spaced == <<" ">> \o U_a \o <<" ">>

Urls == {U_a, U_b, U_quote, U_backslash, U_backslashes, U_hash, U_endQuote, U_spaced, <<>>}

\* config files found at the start
F_emptyUrl == S_header \o <<"\n">> \o S_urlAssign \o <<"\"", "\n">>
F_otherSection == <<"[", "o", "t", "h", "e", "r", "]", "\n">> \o S_urlAssign \o U_b \o <<"\"", "\n">>
F_unclosed == <<"[">> \o S_controller \o <<"\n">>
F_scalar == S_controller \o <<" ", "=", " ", "5", "\n">>
F_intUrl == S_header \o <<"\n", "u", "r", "l", " ", "=", " ", "5", "\n">>
F_configured == S_header \o <<"\n">> \o S_urlAssign \o U_b \o <<"\"", "\n">>
F_rootUrl == S_urlAssign \o U_b \o <<"\"", "\n">>

ConfigFiles ==
    {NoFile} \cup {File(text) : text \in {<<>>, F_emptyUrl, F_otherSection, F_unclosed,
                                           F_scalar, F_intUrl, F_configured, F_rootUrl}}

\* the command lines: the positional url of set-url, the --url of the others
UrlArgs(cmd, url) == [cmd |-> cmd, url |-> url]

\* the last set-url run: the URL it was given and whether the config held
\* no usable URL when it started
SetUrlRun(url, unconfigured) ==
    [called |-> TRUE, cmd |-> "set_url", url |-> url, unconfigured |-> unconfigured]

\* the status request of `scan status`, sent to the resolved base URL
ScanStatusReq(ok, base) == [id |-> 0, ok |-> ok, req |-> "scan", base |-> base]

InitConfig ==
    /\ config \in ConfigFiles
    /\ tomllib \in BOOLEAN
    /\ args = NoArgs
    /\ zone = NoZone
    /\ directory = <<>>
    /\ device = Dev1
    /\ body = NoBody
    /\ clock = 0
    /\ start = 0
    /\ pc = "idle"
    /\ NoCallYet

\* what the runs of this section leave alone
ConfigFrame == UNCHANGED <<zone, directory, device, tomllib, body, clock, start, pc>>

\* main running `dali config controller set-url <url>` (cli.py:1429-1438,
\* 1339-1346): the positional url is args.url, so main resolves it first
SetUrl ==
    \E u \in Urls :
        LET r == resolve_base_url(JStr(u), config, tomllib)
        IN  /\ args' = UrlArgs("set_url", JStr(u))
            /\ op' = "set_url"
            /\ log' = <<>>
            /\ prev' = SetUrlRun(u, ~IsValue(resolve_base_url(Null, config, tomllib)))
            /\ IF IsValue(r)
               THEN /\ config' = File(save_config(cfg_set_url(load_config(config, tomllib),
                                                              r.value.url)))
                    /\ result' = Returned(0)
               ELSE /\ config' = config
                    /\ result' = r
            /\ ConfigFrame

\* main running `dali config controller get-url` (cli.py:1429-1438,
\* 1351-1358): the result is what the command prints
GetUrl ==
    \E url \in {Null, JStr(U_b)} :
        LET r == resolve_base_url(url, config, tomllib)
        IN  /\ args' = UrlArgs("get_url", url)
            /\ op' = "get_url"
            /\ log' = <<>>
            /\ result' = IF IsValue(r) THEN resolve_base_url(Null, config, tomllib) ELSE r
            /\ UNCHANGED <<config, prev>>
            /\ ConfigFrame

\* main running `dali scan status` (cli.py:1429-1438, 242-251)
ScanStatus ==
    \E url \in {Null, JStr(U_b)} :
        LET r == resolve_base_url(url, config, tomllib)
        IN  /\ args' = UrlArgs("scan_status", url)
            /\ op' = "scan_status"
            /\ IF IsValue(r)
               THEN \E ok \in BOOLEAN :
                        /\ log' = <<ScanStatusReq(ok, r.value.url)>>
                        /\ result' = IF ok THEN Returned(0) ELSE Raised("RequestException")
               ELSE /\ log' = <<>>
                    /\ result' = r
            /\ UNCHANGED <<config, prev>>
            /\ ConfigFrame

NextConfig ==
    \/ SetUrl
    \/ GetUrl
    \/ ScanStatus

SpecConfig == InitConfig /\ [][NextConfig]_vars

Next ==
    \/ ZoneMembersCall
    \/ ZoneSceneNumbersCall
    \/ DeviceSceneNumbersCall
    \/ ClassifyDeviceCall

Spec == Init /\ [][Next]_vars

NextResolve ==
    \/ ZoneMembersCall
    \/ ZoneSceneNumbersCall
    \/ DeviceSceneNumbersCall

SpecResolve == (InitResolve \/ InitScenes) /\ [][NextResolve]_vars

(***************************************************************************)
(* Zones with ill-formed targets among well-formed ones, resolved by       *)
(* zone_members and zone_scene_numbers (api.py:108-205).                   *)
(***************************************************************************)
S_zone == <<"z", "o", "n", "e">>
S_d16gear == <<"d", "1", "6", "g", "e", "a", "r">>

SkipTargetPool ==
    { Target(JStr(S_device), JInt(2)),
      Target(JStr(S_group), JInt(1)),
      Target(JStr(S_zone), JInt(1)),
      Target(JStr(S_d16gear), JInt(3)),
      Target(JStr(S_device), JStr(<<"1">>)),
      Target(JStr(S_group), Null),
      Target(JInt(5), JInt(1)),
      JStr(<<"1">>),
      JInt(3) }

SkipZones ==
    [name : {JStr(<<"H", "a", "l", "l">>)}, targets : ListsUpTo(SkipTargetPool, MaxTargets)]

InitSkip ==
    /\ zone \in SkipZones
    /\ directory \in Directories
    /\ device = Dev1
    /\ NoCallYet
    /\ NoCommandLine

SpecSkip == (InitSkip \/ InitScenes) /\ [][NextResolve]_vars

SpecScenes == InitScenes /\ [][DeviceSceneNumbersCall]_vars

SpecClassify == InitClassify /\ [][ClassifyDeviceCall]_vars

(***************************************************************************)
(* zones enumerate (cli.py:540-569): the scene cycle of _zone_enumerate,   *)
(* one step per request and per sleep.  pc is the statement the command    *)
(* is at and the loop variable s; an exception that nothing catches ends   *)
(* the command, KeyboardInterrupt through main (cli.py:1435-1438).         *)
(***************************************************************************)
RestoreScene == 15

\* how a call ends: it returns, or it raises
Outcomes == {"ok", "RequestException", "KeyboardInterrupt"}

\* except Exception (cli.py:553, 559, 566): KeyboardInterrupt is a
\* BaseException and passes through
except_Exception(exc) == exc # "KeyboardInterrupt"

\* main without its handler
main_result_NoHandler(exc) == Raised(exc)

\* main's handler (cli.py:1435-1438): what the process ends with when exc
\* leaves args.func
main_result(exc) == IF exc = "KeyboardInterrupt" THEN Returned(130) ELSE Raised(exc)

\* time.sleep(delay) raises ValueError for a negative length
sleep_raises(delay) == delay < 0

\* the statement the command is at, with the loop variable; raised is the
\* exception that left the command at that statement ("none": none did)
At(stmt, s) == [raised |-> "none", s |-> s, at |-> stmt]
Left(stmt, s, exc) == [raised |-> exc, s |-> s, at |-> stmt]

EnumArgs(id, first, last, restore, delay) ==
    [start |-> first, id |-> id, cmd |-> "zone_enumerate", delay |-> delay,
     restore |-> restore, end |-> last]

\* --start and --end
CycleRanges == { <<0, 1>>, <<0, 2>>, <<1, 1>>, <<12, 15>>, <<14, 15>>, <<2, 1>>, <<-1, 0>> }

DelayValues == {0, 2, -1}

EnumerateArgs ==
    {EnumArgs(1, r[1], r[2], b, d) : r \in CycleRanges, b \in BOOLEAN, d \in DelayValues}

SaveReq(ok) == ControlReq("control_zone", args.id, ok, Null, [saveToScene |-> RestoreScene])
RecallReq(s, ok) == ControlReq("control_zone", args.id, ok, Null, [scene |-> s])

\* the requests a call that ends with out has put on the wire: a call that
\* returns was carried out, one that raises RequestException was not, and
\* an interrupted call may not have been sent, or sent and carried out or not
Sent(req(_), out) ==
    IF out = "ok" THEN {<<req(TRUE)>>}
    ELSE IF out = "RequestException" THEN {<<req(FALSE)>>}
    ELSE {<<>>, <<req(TRUE)>>, <<req(FALSE)>>}

\* the statement after the loop body for scene s - 1 (cli.py:555, 562, 568):
\* the next scene, the restore recall, or return 0
after_scene(s) ==
    IF s <= args.end THEN At("recall", s)
    ELSE IF args.restore THEN At("restore", s)
    ELSE At("return", s)

\* what the process has ended with on reaching position p
result_at(p) ==
    IF p.raised # "none" THEN main_result(p.raised)
    ELSE IF p.at = "return" THEN Returned(0)
    ELSE result

InitEnumerate ==
    /\ zone \in FanOutZones
    /\ directory = <<>>
    /\ device = Dev1
    /\ args \in EnumerateArgs
    /\ config = NoFile
    /\ tomllib = TRUE
    /\ body = NoBody
    /\ clock = 0
    /\ start = 0
    /\ pc = At("idle", args.start)
    /\ NoCallYet

EnumerateFrame == UNCHANGED <<zone, directory, device, prev, args, config, tomllib, body, start>>

\* the command is at statement stmt, and running
Running(stmt) == op = "zone_enumerate" /\ pc.at = stmt /\ pc.raised = "none"

\* _zone_enumerate up to its first request (cli.py:546-549, 555)
EnumerateStart ==
    /\ NotRunYet
    /\ args.cmd = "zone_enumerate"
    /\ op' = "zone_enumerate"
    /\ pc' = IF args.restore THEN At("save", args.start) ELSE after_scene(args.start)
    /\ result' = result_at(pc')
    /\ UNCHANGED <<log, clock>>
    /\ EnumerateFrame

\* saveToScene 15 before the cycle (cli.py:549-554)
EnumerateSave ==
    /\ Running("save")
    /\ \E out \in Outcomes :
        /\ \E sent \in Sent(SaveReq, out) : log' = log \o sent
        /\ pc' = IF out = "ok" \/ except_Exception(out)
                 THEN after_scene(pc.s)
                 ELSE Left("save", pc.s, out)
    /\ result' = result_at(pc')
    /\ UNCHANGED <<op, clock>>
    /\ EnumerateFrame

\* the recall of scene s (cli.py:556-560)
EnumerateRecall ==
    /\ Running("recall")
    /\ \E out \in Outcomes :
        /\ \E sent \in Sent(LAMBDA ok : RecallReq(pc.s, ok), out) : log' = log \o sent
        /\ pc' = IF out = "ok" \/ except_Exception(out)
                 THEN At("sleep", pc.s)
                 ELSE Left("recall", pc.s, out)
    /\ result' = result_at(pc')
    /\ UNCHANGED <<op, clock>>
    /\ EnumerateFrame

\* time.sleep(args.delay) and the loop's next step (cli.py:561, 555)
EnumerateSleep ==
    /\ Running("sleep")
    /\ IF sleep_raises(args.delay)
       THEN /\ pc' = Left("sleep", pc.s, "ValueError")
            /\ clock' = clock
       ELSE \E out \in {"ok", "KeyboardInterrupt"} :
              IF out = "ok"
              THEN /\ pc' = after_scene(pc.s + 1)
                   /\ clock' = clock + args.delay
              ELSE /\ pc' = Left("sleep", pc.s, out)
                   /\ clock' = clock
    /\ result' = result_at(pc')
    /\ UNCHANGED <<op, log>>
    /\ EnumerateFrame

\* the recall of scene 15 after the cycle, and return 0 (cli.py:562-568)
EnumerateRestore ==
    /\ Running("restore")
    /\ \E out \in Outcomes :
        /\ \E sent \in Sent(LAMBDA ok : RecallReq(RestoreScene, ok), out) : log' = log \o sent
        /\ pc' = IF out = "ok" \/ except_Exception(out)
                 THEN At("return", pc.s)
                 ELSE Left("restore", pc.s, out)
    /\ result' = result_at(pc')
    /\ UNCHANGED <<op, clock>>
    /\ EnumerateFrame

NextEnumerate ==
    \/ EnumerateStart
    \/ EnumerateSave
    \/ EnumerateRecall
    \/ EnumerateSleep
    \/ EnumerateRestore

SpecEnumerate == InitEnumerate /\ [][NextEnumerate]_vars

(***************************************************************************)
(* Repeated resolution (api.py:108-205): one Client resolves the same zone *)
(* again and again while the controller's directory changes between the    *)
(* calls.  The Client holds base_url, timeout and a requests session only  *)
(* (api.py:10-19); prev is the call before the last one.                   *)
(***************************************************************************)
Dev2Moved ==
    [id |-> 2,
     scenes |-> <<JInt(11)>>,
     groups |-> <<3>>, line |-> 1, address |-> 2]

ServedDirectories == Directories \cup { <<Dev1, Dev2Moved>>, <<Dev2Moved, Dev3>> }

RepeatZones ==
    { [name |-> HallZoneName, targets |-> <<Target(JStr(S_group), JInt(1))>>],
      [name |-> HallZoneName, targets |-> <<Target(Absent, JInt(2)), Target(JStr(S_group), JInt(3))>>],
      [name |-> HallZoneName, targets |-> <<Target(JStr(S_all), Absent)>>] }

InitRepeat ==
    /\ zone \in RepeatZones
    /\ directory \in ServedDirectories
    /\ device = Dev1
    /\ NoCallYet
    /\ NoCommandLine

\* the call that ran last, as the next call finds it
LastCall == IF NotRunYet THEN NoCall ELSE [log |-> log, result |-> result, called |-> TRUE]

\* the controller's directory changes (a scan, a device moved or regrouped)
DirectoryChanges ==
    /\ directory' \in ServedDirectories \ {directory}
    /\ UNCHANGED <<zone, device, op, log, result, prev>>
    /\ UNCHANGED cliVars

\* zone_members that keeps what it returned last
ZoneMembersAgain_Cached ==
    /\ \E dirOk \in BOOLEAN :
       \E r \in {IF op = "zone_members"
                 THEN [log |-> <<>>, result |-> result]
                 ELSE zone_members(zone, directory, dirOk)} :
        /\ op' = "zone_members"
        /\ log' = r.log
        /\ result' = r.result
    /\ prev' = LastCall
    /\ UNCHANGED <<zone, directory, device>>
    /\ UNCHANGED cliVars

\* zone_members (api.py:168-205), called on the directory as it is now
ZoneMembersAgain ==
    /\ \E dirOk \in BOOLEAN :
       \E r \in {zone_members(zone, directory, dirOk)} :
        /\ op' = "zone_members"
        /\ log' = r.log
        /\ result' = r.result
    /\ prev' = LastCall
    /\ UNCHANGED <<zone, directory, device>>
    /\ UNCHANGED cliVars

\* zone_scene_numbers (api.py:108-166), called on the directory as it is now
ZoneSceneNumbersAgain ==
    /\ \E dirOk \in BOOLEAN :
       \E failing \in SUBSET RequestedIds(zone, directory, dirOk) :
       \E r \in {zone_scene_numbers(zone, directory, dirOk, failing)} :
        /\ op' = "zone_scene_numbers"
        /\ log' = r.log
        /\ result' = r.result
    /\ prev' = LastCall
    /\ UNCHANGED <<zone, directory, device>>
    /\ UNCHANGED cliVars

NextRepeat ==
    \/ DirectoryChanges
    \/ ZoneMembersAgain
    \/ ZoneSceneNumbersAgain

SpecRepeat == InitRepeat /\ [][NextRepeat]_vars

(***************************************************************************)
(* The Zones column of devices poll (cli.py:199-225): _zones_for_device    *)
(* run on a device of the directory and the zones served by the            *)
(* controller.                                                             *)
(***************************************************************************)
S_None == <<"N", "o", "n", "e">>

\* one target's tests (cli.py:211-221); did and groups are the device's
target_includes(t, did, groups) ==
    /\ t.t = "obj"
    /\ LET t_type == Lower(StrOrEmpty(Get(t.type)))
           t_id == Get(t.id)
       IN  \/ t_type \in DeviceTypeNames /\ IsInt(t_id) /\ t_id.v = did
           \/ t_type \in GroupTypeNames /\ IsInt(t_id) /\ t_id.v \in groups

\* include, after the loop over the zone's targets (cli.py:204-222)
zone_includes(d, z) ==
    LET groups == {Field(d, "groups", <<>>)[j] : j \in 1..Len(Field(d, "groups", <<>>))}
    IN  \/ Lower(Strip(StrOrEmpty(z.name))) = S_broadcast
        \/ \E i \in 1..Len(z.targets) : target_includes(z.targets[i], d.id, groups)

\* str(zname or z.get("id")) for a zone served without an id (cli.py:224)
zone_label(z) == IF StrOrEmpty(z.name) # <<>> THEN z.name.v ELSE S_None

RECURSIVE zones_for_device(_, _)
zones_for_device(d, zones) ==
    IF zones = <<>> THEN <<>>
    ELSE IF zone_includes(d, Head(zones))
         THEN <<zone_label(Head(zones))>> \o zones_for_device(d, Tail(zones))
         ELSE zones_for_device(d, Tail(zones))

InitZonesColumn ==
    /\ zone \in Zones
    /\ directory \in Directories
    /\ device \in {directory[i] : i \in 1..Len(directory)}
    /\ NoCallYet
    /\ NoCommandLine

\* _zones_for_device(device, [zone])
ZonesForDeviceCall ==
    /\ NotRunYet
    /\ op' = "zones_for_device"
    /\ log' = <<>>
    /\ result' = zones_for_device(device, <<zone>>)
    /\ prev' = NoCall
    /\ UNCHANGED <<zone, directory, device>>
    /\ UNCHANGED cliVars

NextZonesColumn ==
    \/ ZonesForDeviceCall
    \/ ZoneMembersCall

SpecZonesColumn == InitZonesColumn /\ [][NextZonesColumn]_vars

(***************************************************************************)
(* poll_devices (api.py:463-496).  args.ids is the ids parameter (Null:    *)
(* None); each detail request is answered with a record of the device or   *)
(* fails, after some milliseconds.                                         *)
(***************************************************************************)
PollArgs(ids) == [ids |-> ids, cmd |-> "poll_devices"]

PollIds == { Null, <<>>, <<2, 1>>, <<3, 3>>, <<4, 1, 3>> }

LatencyValues == {0, 4}

\* what the controller may serve for the device polled as d
DetailPool(d) == { d, [id |-> d.id, groups |-> <<>>, line |-> 2] }

\* how one detail request ends: detail stays {} when it raised
Answered(detail, ms) == [ok |-> TRUE, detail |-> detail, latency_ms |-> ms]
Unanswered(ms) == [ok |-> FALSE, detail |-> <<>>, latency_ms |-> ms]

AnswersFor(d) ==
    {Answered(x, ms) : x \in DetailPool(d), ms \in LatencyValues}
        \cup {Unanswered(ms) : ms \in LatencyValues}

\* one way of answering each device of the list in turn
RECURSIVE AnswerLists(_)
AnswerLists(devices) ==
    IF devices = <<>> THEN {<<>>}
    ELSE {<<a>> \o rest : a \in AnswersFor(Head(devices)), rest \in AnswerLists(Tail(devices))}

\* {**d, **detail} with the directory's values winning
merged_DirectoryWins(d, detail) ==
    [k \in DOMAIN d \cup DOMAIN detail |-> IF k \in DOMAIN d THEN d[k] ELSE detail[k]]

\* {**d, **detail}   (api.py:490)
merged(d, detail) ==
    [k \in DOMAIN d \cup DOMAIN detail |-> IF k \in DOMAIN detail THEN detail[k] ELSE d[k]]

\* the devices polled (api.py:470-477)
polled(ids, dir) ==
    IF ids = Null THEN dir
    ELSE LET F[i \in 0..Len(ids)] == IF i = 0 THEN <<>> ELSE Append(F[i - 1], [id |-> ids[i]])
         IN  F[Len(ids)]

\* one iteration of the loop over devices (api.py:480-493)
poll_step(d, a) ==
    merged(merged(d, a.detail), [latency_ms |-> a.latency_ms, reachable |-> a.ok])

RECURSIVE poll_loop(_, _)
poll_loop(devices, answers) ==
    IF devices = <<>> THEN [log |-> <<>>, result |-> <<>>]
    ELSE LET rest == poll_loop(Tail(devices), Tail(answers))
         IN  [log |-> <<DeviceReq(Head(devices).id, Head(answers).ok)>> \o rest.log,
              result |-> <<poll_step(Head(devices), Head(answers))>> \o rest.result]

poll_devices(ids, dir, dirOk, answers) ==
    IF ids = Null /\ ~dirOk
    THEN [log |-> <<DevicesReq(FALSE)>>, result |-> Raised("RequestException")]
    ELSE LET r == poll_loop(polled(ids, dir), answers)
         IN  [log |-> (IF ids = Null THEN <<DevicesReq(TRUE)>> ELSE <<>>) \o r.log,
              result |-> SortedByKey(r.result)]

InitPoll ==
    /\ zone = NoZone
    /\ directory \in Directories \cup OrderDirectories
    /\ device = Dev1
    /\ args \in {PollArgs(ids) : ids \in PollIds}
    /\ config = NoFile
    /\ tomllib = TRUE
    /\ body = NoBody
    /\ clock = 0
    /\ start = 0
    /\ pc = "idle"
    /\ NoCallYet

PollDevicesCall ==
    /\ NotRunYet
    /\ args.cmd = "poll_devices"
    /\ \E dirOk \in BOOLEAN :
       \E answers \in AnswerLists(polled(args.ids, directory)) :
       \E r \in {poll_devices(args.ids, directory, dirOk, answers)} :
        /\ op' = "poll_devices"
        /\ log' = r.log
        /\ result' = r.result
    /\ prev' = NoCall
    /\ UNCHANGED <<zone, directory, device>>
    /\ UNCHANGED cliVars

SpecPoll == InitPoll /\ [][PollDevicesCall]_vars

(***************************************************************************)
(* status-queries set (cli.py:1298-1317, api.py:421-434).  body is what    *)
(* the controller holds for the line; a request is answered with an error  *)
(* status, or with 200 and a JSON object, or with 200 and no body.         *)
(***************************************************************************)
JDict(d) == [t |-> "dict", v |-> d]

Reply(ok, data) == [ok |-> ok, data |-> data]

StoredConfigs ==
    { [delayBetweenQueries |-> 100, queryStatus |-> TRUE, queryActualLevel |-> FALSE],
      [delayBetweenQueries |-> 100, queryLampFailure |-> TRUE] }

\* the ways the controller answers a write of cfg
WriteReplies(cfg) == { Reply(FALSE, EmptyBody), Reply(TRUE, EmptyBody), Reply(TRUE, JDict(cfg)) }

\* r.raise_for_status(); return r.json()   (api.py:421-434)
json_reply(r) ==
    IF ~r.ok THEN Raised("RequestException")
    ELSE IF Unparsable(r.data) THEN Raised("JSONDecodeError")
    ELSE Value(r.data.v)

\* cfg[k] = v
SetItem(cfg, k, v) == [x \in DOMAIN cfg \cup {k} |-> IF x = k THEN v ELSE cfg[x]]

\* the three assignments of _statusq_set (cli.py:1305-1310)
with_options(cfg, a) ==
    LET c1 == IF a.delay # Null THEN SetItem(cfg, "delayBetweenQueries", a.delay.v) ELSE cfg
        c2 == IF a.status # "None" THEN SetItem(c1, "queryStatus", a.status = "True") ELSE c1
    IN  IF a.actual # "None" THEN SetItem(c2, "queryActualLevel", a.actual = "True") ELSE c2

StatusqReq(method, r, line, cfg) == [ok |-> r.ok, req |-> method, line |-> line, payload |-> cfg]

\* --status / --no-status and --actual-level / --no-actual-level: None, True, False
Tristate == {"None", "True", "False"}

StatusqArgs(line, delay, status, actual) ==
    [line |-> line, cmd |-> "statusq_set", status |-> status, delay |-> delay, actual |-> actual]

StatusqSetArgs ==
    {StatusqArgs(1, d, st, ac) : d \in {Null, JInt(5)}, st \in Tristate, ac \in Tristate}

InitStatusq ==
    /\ zone = NoZone
    /\ directory = <<>>
    /\ device = Dev1
    /\ args \in StatusqSetArgs
    /\ config = NoFile
    /\ tomllib = TRUE
    /\ body \in {EmptyBody} \cup {JDict(c) : c \in StoredConfigs}
    /\ clock = 0
    /\ start = 0
    /\ pc = "idle"
    /\ NoCallYet

\* _statusq_set (cli.py:1298-1317)
StatusqSet ==
    /\ NotRunYet
    /\ args.cmd = "statusq_set"
    /\ op' = "statusq_set"
    /\ \E getOk \in BOOLEAN :
       \E got \in {json_reply(Reply(getOk, body))} :
       \E cfg \in {with_options(IF IsValue(got) THEN got.value ELSE <<>>, args)} :
       \E post \in WriteReplies(cfg), put \in WriteReplies(cfg) :
        LET get == StatusqReq("get_status_queries_line", Reply(getOk, body), args.line, Null)
        IN  IF IsValue(json_reply(post))
            THEN /\ log' = <<get, StatusqReq("post_status_queries_line", post, args.line, cfg)>>
                 /\ result' = Returned(0)
            ELSE /\ log' = <<get, StatusqReq("post_status_queries_line", post, args.line, cfg),
                             StatusqReq("put_status_queries_line", put, args.line, cfg)>>
                 /\ result' = IF IsValue(json_reply(put)) THEN Returned(0) ELSE json_reply(put)
    /\ prev' = NoCall
    /\ UNCHANGED <<zone, directory, device>>
    /\ UNCHANGED cliVars

SpecStatusq == InitStatusq /\ [][StatusqSet]_vars

(***************************************************************************)
(* The update commands (cli.py:727-745, 880-917, 1184-1205): the model     *)
(* sent is a dict that starts empty and gets a key for each option given.  *)
(* An option not given is Null (name, repeat, delay), "None" (the          *)
(* --x/--no-x pairs) or NoOption (a file).                                 *)
(***************************************************************************)
\* a PUT that updates automation id
UpdateReq(kind, id, ok, model) == [id |-> id, ok |-> ok, req |-> kind, payload |-> model]

\* the PUT of an update command and the way the command ends after it
Updated(kind, model) ==
    \E ok \in BOOLEAN :
        /\ log' = <<UpdateReq(kind, args.id, ok, model)>>
        /\ result' = IF ok THEN Returned(0) ELSE Raised("RequestException")

\* "enabled" sent whether or not the option was given
with_enabled_Defaulted(model, a) == SetItem(model, "enabled", a.enabled = "True")

\* if args.enabled is not None: model["enabled"] = bool(args.enabled)
with_enabled(model, a) ==
    IF a.enabled # "None" THEN SetItem(model, "enabled", a.enabled = "True") ELSE model

\* if args.name is not None: model["name"] = args.name
with_name(model, a) == IF a.name # Null THEN SetItem(model, "name", a.name) ELSE model

\* if x: model[k] = x, for a list x
with_list(model, k, x) == IF x # <<>> THEN SetItem(model, k, x) ELSE model

\* the loop and repeat assignments of _sequence_update (cli.py:885-888)
with_loop_repeat(model, a) ==
    LET m1 == IF a.loop # "None" THEN SetItem(model, "loop", a.loop = "True") ELSE model
    IN  IF a.repeat # Null THEN SetItem(m1, "repeat", a.repeat.v) ELSE m1

\* the replacement step of _sequence_update (cli.py:901-909)
replacement_steps(a, tgts) ==
    <<[type |-> "features",
       data |-> [targets |-> tgts, features |-> StepFeatures(a)],
       delay |-> IF a.delay # Null THEN a.delay.v ELSE 0]>>

NameOptions == {Null, JStr(<<"a">>)}

TriggerUpdateArgs ==
    {[device |-> d, id |-> 7, name |-> n, cmd |-> "trigger_update", broadcast |-> b,
      src_d16gear |-> sg, src_device |-> sd, enabled |-> e] :
        d \in { <<>>, <<1>> }, n \in NameOptions \cup {JStr(<<>>)}, b \in BOOLEAN,
        sg \in { <<>>, <<S_1c2>>, <<S_12>> }, sd \in { <<>>, <<3>> }, e \in Tristate}

SequenceUpdateArgs ==
    {[device |-> d, id |-> 7, scene |-> 0, name |-> n, cmd |-> "sequence_update",
      broadcast |-> FALSE, enabled |-> e, step |-> st, delay |-> dl, steps_json |-> f,
      loop |-> lp, repeat |-> rp] :
        d \in { <<>>, <<1>> }, n \in NameOptions, e \in Tristate,
        st \in {"none", "on", "scene"}, dl \in {Null, JInt(3)},
        f \in {NoOption, MissingFile, JList(<<>>)},
        lp \in {"None", "False"}, rp \in {Null, JInt(0)}}

CircadianUpdateArgs ==
    {[device |-> d, id |-> 7, name |-> n, cmd |-> "circadian_update", broadcast |-> b,
      enabled |-> e, longest_json |-> lf, shortest_json |-> sf] :
        d \in { <<>>, <<1>> }, n \in NameOptions, b \in BOOLEAN, e \in Tristate,
        lf \in {NoOption, InvalidFile, JObject("curve", Null)},
        sf \in {NoOption, MissingFile, JObject("curve", Null)}}

InitUpdate ==
    /\ args \in TriggerUpdateArgs \cup SequenceUpdateArgs \cup CircadianUpdateArgs
    /\ zone = NoZone
    /\ directory = <<>>
    /\ device = Dev1
    /\ config = NoFile
    /\ tomllib = TRUE
    /\ body = NoBody
    /\ clock = 0
    /\ start = 0
    /\ pc = "idle"
    /\ NoCallYet

\* the end of the three handlers: nothing to send, or the PUT
SendIfAny(kind, model) ==
    IF model = <<>> THEN EndsWith(Returned(0)) ELSE Updated(kind, model)

\* _trigger_update (cli.py:727-745)
TriggerUpdate ==
    /\ NotRunYet
    /\ args.cmd = "trigger_update"
    /\ op' = "trigger_update"
    /\ \E sources \in {collect_sources(args)}, targets \in {collect_targets(args)} :
        IF ~IsValue(sources) THEN EndsWith(sources)
        ELSE SendIfAny("update_trigger_action",
                       with_list(with_list(with_enabled(with_name(<<>>, args), args),
                                           "sources", sources.value),
                                 "targets", targets))
    /\ CreateFrame

\* _sequence_update (cli.py:880-917)
SequenceUpdate ==
    /\ NotRunYet
    /\ args.cmd = "sequence_update"
    /\ op' = "sequence_update"
    /\ \E tgts \in {collect_targets(args)}, loaded \in {LoadJson(args.steps_json)} :
       \E model \in {with_enabled(with_loop_repeat(with_name(<<>>, args), args), args)} :
        IF args.steps_json # NoOption
        THEN IF ~IsValue(loaded) THEN EndsWith(loaded)
             ELSE SendIfAny("update_sequence", SetItem(model, "steps", loaded.value))
        ELSE IF args.step # "none"
        THEN IF tgts = <<>> THEN EndsWith(Returned(2))
             ELSE SendIfAny("update_sequence",
                            SetItem(model, "steps", replacement_steps(args, tgts)))
        ELSE SendIfAny("update_sequence", model)
    /\ CreateFrame

\* _circadian_update (cli.py:1184-1205)
CircadianUpdate ==
    /\ NotRunYet
    /\ args.cmd = "circadian_update"
    /\ op' = "circadian_update"
    /\ \E tgts \in {collect_targets(args)},
          longest \in {LoadJson(args.longest_json)},
          shortest \in {LoadJson(args.shortest_json)} :
       \E m1 \in {with_list(with_enabled(with_name(<<>>, args), args), "targets", tgts)} :
        IF args.longest_json # NoOption /\ ~IsValue(longest) THEN EndsWith(longest)
        ELSE IF args.shortest_json # NoOption /\ ~IsValue(shortest) THEN EndsWith(shortest)
        ELSE LET m2 == IF args.longest_json # NoOption
                       THEN SetItem(m1, "longest", longest.value) ELSE m1
                 m3 == IF args.shortest_json # NoOption
                       THEN SetItem(m2, "shortest", shortest.value) ELSE m2
             IN  SendIfAny("update_circadian", m3)
    /\ CreateFrame

NextUpdate ==
    \/ TriggerUpdate
    \/ SequenceUpdate
    \/ CircadianUpdate

SpecUpdate == InitUpdate /\ [][NextUpdate]_vars

(***************************************************************************)
(* What a zone says, read off its record.                                  *)
(***************************************************************************)
\* the type name of target i, lower-cased ("" when the target has none)
TypeNameAt(z, i) == Lower(StrOrEmpty(Get(z.targets[i].type)))

\* the targets that are objects with an integer id
IdTargets(z) ==
    {i \in 1..Len(z.targets) : z.targets[i].t = "obj" /\ IsInt(Get(z.targets[i].id))}

DeviceTargets(z) == {i \in IdTargets(z) : TypeNameAt(z, i) \in {<<>>, S_device, S_default}}

GroupTargets(z) ==
    {i \in IdTargets(z) :
        TypeNameAt(z, i) \in {S_group, S_d16group, S_dali_group, S_dali_dash_group}}

ExplicitIdsOf(z) == {z.targets[i].id.v : i \in DeviceTargets(z)}
GroupIdsOf(z) == {z.targets[i].id.v : i \in GroupTargets(z)}

BroadcastFlag(z) ==
    \/ Lower(Strip(StrOrEmpty(z.name))) = S_broadcast
    \/ \E i \in 1..Len(z.targets) :
           /\ z.targets[i].t = "obj"
           /\ TypeNameAt(z, i) \in {S_broadcast, S_all}

\* the directory devices that are in a group the zone targets
InTargetedGroup(z, d) ==
    \E j \in 1..Len(Field(d, "groups", <<>>)) : d.groups[j] \in GroupIdsOf(z)

Elems(s) == {s[i] : i \in 1..Len(s)}

DirectoryOk == Len(log) >= 1 /\ log[1].req = "devices" /\ log[1].ok

BroadcastName == JStr(<<" ", "B", "r", "o", "a", "d", "C", "A", "S", "T", "\t">>)
HallName == JStr(<<"H", "a", "l", "l">>)

(***************************************************************************)
(* C1: when the zone's name, trimmed and lower-cased, is "broadcast", or a *)
(* target has type "broadcast" or "all" (any case, with or without an id), *)
(* zone_members returns every device of the served directory, each once,   *)
(* whatever device or group targets the zone also lists.                   *)
(***************************************************************************)
C1_BroadcastResolvesWholeDirectory ==
    (op = "zone_members" /\ DirectoryOk /\ BroadcastFlag(zone))
        => /\ Elems(result) = Elems(directory)
           /\ Len(result) = Len(directory)

\* a zone named " BroadCAST\t" that names device 2 only resolves to all three devices
C1_Witness ==
    /\ op = "zone_members"
    /\ DirectoryOk
    /\ zone.name = BroadcastName
    /\ zone.targets = <<Target(JStr(<<"D", "e", "v", "i", "c", "e">>), JInt(2))>>
    /\ Len(directory) = 3
    /\ Len(result) = 3

(***************************************************************************)
(* C2: without the broadcast flag, a device of the served directory is in  *)
(* zone_members(zone) exactly when its id is the id of a target of type    *)
(* "", "device" or "default", or one of its groups is the id of a target   *)
(* of type "group", "d16group", "dali_group" or "dali-group" (type names   *)
(* compared without regard to case); the result is the union of the two.   *)
(***************************************************************************)
C2_MembersAreExplicitOrGrouped ==
    (op = "zone_members" /\ DirectoryOk /\ ~BroadcastFlag(zone))
        => /\ Elems(result) =
                {d \in Elems(directory) :
                    d.id \in ExplicitIdsOf(zone) \/ InTargetedGroup(zone, d)}
           /\ \A i, j \in 1..Len(result) : result[i] = result[j] => i = j

\* device 3 by an explicit target, devices 1 and 2 through group 1 only
C2_Witness ==
    /\ op = "zone_members"
    /\ DirectoryOk
    /\ zone.name = HallName
    /\ zone.targets = <<Target(JStr(S_default), JInt(3)), Target(JStr(S_group), JInt(1))>>
    /\ Len(directory) = 3
    /\ {result[i].id : i \in 1..Len(result)} = {1, 2, 3}

(***************************************************************************)
(* Requests and scene numbers, read off the log and the records.           *)
(***************************************************************************)
\* how many detail requests (GET /device/{id}) the call issued for did
DetailRequests(did) ==
    Cardinality({i \in 1..Len(log) : log[i].req = "device" /\ log[i].id = did})

NoDetailRequest == \A i \in 1..Len(log) : log[i].req # "device"

\* the scene numbers of a set of device records
ScenesOfAll(records) == UNION {Elems(device_scene_numbers(r)) : r \in records}

\* the members zone_members resolves when its directory request fares as this call's did
MembersHere == Elems(zone_members(zone, directory, log[1].ok).result)

StrictlyAscending(s) == \A i \in 1..(Len(s) - 1) : s[i] < s[i + 1]

\* a directory device reached through a targeted group or through broadcast
GroupMatched(d) == BroadcastFlag(zone) \/ InTargetedGroup(zone, d)

(***************************************************************************)
(* C3 as stated: resolving a group-type target never issues a per-device   *)
(* detail request, in zone_members and in zone_scene_numbers: devices      *)
(* matched through group membership or broadcast come from the listing     *)
(* only, so every detail request is for an explicitly targeted device.     *)
(***************************************************************************)
C3_Original ==
    (op \in {"zone_members", "zone_scene_numbers"})
        => \A i \in 1..Len(log) :
               log[i].req = "device" => log[i].id \in ExplicitIdsOf(zone)

(***************************************************************************)
(* C3 amended: zone_members issues no detail request and returns listing   *)
(* records; zone_scene_numbers issues exactly one detail request for each  *)
(* listed device matched through a group or broadcast that is not also an  *)
(* explicit device target, none for any other non-explicit id, and the     *)
(* device's scenes are in the result whether or not that request succeeds. *)
(***************************************************************************)
C3_GroupMembersDetail ==
    /\ op = "zone_members" =>
           /\ NoDetailRequest
           /\ Elems(result) \subseteq Elems(directory)
    /\ op = "zone_scene_numbers" =>
           /\ \A d \in Elems(directory) :
                  d.id \notin ExplicitIdsOf(zone) =>
                      /\ DetailRequests(d.id) =
                             IF DirectoryOk /\ GroupMatched(d) THEN 1 ELSE 0
                      /\ (DirectoryOk /\ GroupMatched(d)) =>
                             Elems(device_scene_numbers(d)) \subseteq Elems(result)
           /\ \A i \in 1..Len(log) :
                  log[i].req = "device" =>
                      log[i].id \in ExplicitIdsOf(zone) \cup DirIds(directory)

\* group 1 = devices 1 and 2: one detail request each, one of them failing
C3_Witness ==
    /\ op = "zone_scene_numbers"
    /\ zone.name = HallName
    /\ zone.targets = <<Target(JStr(S_group), JInt(1))>>
    /\ log = <<DevicesReq(TRUE), DeviceReq(1, FALSE), DeviceReq(2, TRUE)>>
    /\ result = <<3, 5, 7>>

(***************************************************************************)
(* C4 as stated: in zone_members and in zone_scene_numbers, one detail     *)
(* request is issued per explicit device id.                               *)
(***************************************************************************)
C4_Original ==
    (op \in {"zone_members", "zone_scene_numbers"})
        => \A did \in ExplicitIdsOf(zone) : DetailRequests(did) = 1

(***************************************************************************)
(* C4 amended: zone_scene_numbers issues one detail request per explicit   *)
(* device target entry (an id listed twice is requested twice); when it    *)
(* fails, the listing record of that id is used, so the scenes of a listed *)
(* device are in the result either way and nothing is raised; zone_members *)
(* issues no detail request and takes explicit devices from the listing.   *)
(***************************************************************************)
C4_ExplicitDetail ==
    /\ op = "zone_scene_numbers" =>
           \A did \in ExplicitIdsOf(zone) :
               /\ DetailRequests(did) =
                      Cardinality({i \in DeviceTargets(zone) : zone.targets[i].id.v = did})
               /\ (did \in DirIds(directory)
                     /\ (DirectoryOk \/ \E i \in 1..Len(log) : log[i] = DeviceReq(did, TRUE)))
                    => Elems(device_scene_numbers(DirRecord(directory, did)))
                           \subseteq Elems(result)
    /\ op = "zone_members" =>
           /\ NoDetailRequest
           /\ DirectoryOk =>
                  ExplicitIdsOf(zone) \cap DirIds(directory)
                      \subseteq {result[i].id : i \in 1..Len(result)}

\* the detail request of explicit device 1 fails; its listing record gives scenes 3 and 5
C4_Witness ==
    /\ op = "zone_scene_numbers"
    /\ zone.name = HallName
    /\ zone.targets = <<Target(Absent, JInt(1))>>
    /\ log = <<DevicesReq(TRUE), DeviceReq(1, FALSE)>>
    /\ result = <<3, 5>>

(***************************************************************************)
(* C5: zone_members returns each device id at most once, also for a device *)
(* reached both by an explicit target and through a group or named by      *)
(* several targets, and a second call on the same zone against the same    *)
(* directory, answered alike, returns the same list.                       *)
(***************************************************************************)
C5_MembersOnceAndRepeatable ==
    op = "zone_members" =>
        /\ \A i, j \in 1..Len(result) : result[i].id = result[j].id => i = j
        /\ (prev.called /\ prev.log = log) => prev.result = result

\* device 1 is an explicit target and a member of group 1; the call ran twice
C5_Witness ==
    /\ op = "zone_members"
    /\ prev.called
    /\ prev.log = log
    /\ DirectoryOk
    /\ zone.name = HallName
    /\ zone.targets = <<Target(Absent, JInt(1)), Target(JStr(S_group), JInt(1))>>
    /\ Len(directory) = 3
    /\ <<result[1].id, result[2].id>> = <<2, 1>>
    /\ Len(result) = 2

KeyValuesInOrder(e) == <<Get(e.id), Get(e.scene), Get(e.number)>>

EntryNumber(e) ==
    IF e.t = "int" THEN {e.v}
    ELSE IF e.t = "obj"
         THEN LET vals == KeyValuesInOrder(e)
                  ints == {i \in 1..3 : vals[i].t = "int"}
              IN  IF ints = {} THEN {} ELSE {vals[SetMin(ints)].v}
         ELSE {}

CodesOf(d) ==
    LET types == Field(d, "daliTypes", <<>>)
    IN  {types[i].v : i \in {j \in 1..Len(types) : types[j].t = "int"}}

C9_FlagsUnionKindByPriority ==
    op = "classify_device" =>
        LET codes == CodesOf(device)
        IN  /\ result.supports_color = (8 \in codes)
            /\ result.supports_dim = (8 \in codes \/ 6 \in codes \/ 4 \in codes)
            /\ result.supports_switch = (7 \in codes)
            /\ result.kind = IF 8 \in codes THEN "color"
                             ELSE IF 6 \in codes THEN "led"
                             ELSE IF 4 \in codes THEN "incandescent"
                             ELSE IF 7 \in codes THEN "relay"
                             ELSE "unknown"

\* types [7, 6]: kind led, switch and dim, no color
C9_Witness ==
    /\ op = "classify_device"
    /\ "daliTypes" \in DOMAIN device
    /\ device.daliTypes = <<JInt(7), JInt(6)>>
    /\ result.kind = "led"
    /\ result.supports_switch
    /\ result.supports_dim
    /\ ~result.supports_color

(***************************************************************************)
(* C10: classify_device returns a summary for every device record          *)
(* (daliTypes missing, empty, or holding non-integer entries, which are    *)
(* discarded), and when none of the codes 4, 6, 7, 8 is present the        *)
(* summary is kind "unknown" with all three flags false, whatever feature  *)
(* keys the record exposes.                                                *)
(***************************************************************************)
C10_TotalAndUnknownWithoutCodes ==
    op = "classify_device" =>
        /\ result.kind \in {"color", "led", "incandescent", "relay", "unknown"}
        /\ {result.supports_switch, result.supports_dim, result.supports_color} \subseteq BOOLEAN
        /\ CodesOf(device) \cap {4, 6, 7, 8} = {} =>
               result = [kind |-> "unknown", supports_switch |-> FALSE,
                         supports_dim |-> FALSE, supports_color |-> FALSE]

\* daliTypes ["6", null] and a dimmable feature key: still unknown, nothing supported
C10_Witness ==
    /\ op = "classify_device"
    /\ "daliTypes" \in DOMAIN device
    /\ device.daliTypes = <<JStr(<<"6">>), Null>>
    /\ "dimmable" \in DOMAIN device.features
    /\ result.kind = "unknown"
    /\ ~result.supports_dim

(***************************************************************************)
(* What a control command sent, read off the request log.                  *)
(***************************************************************************)
ControlKinds == {"control_device", "control_zone", "control_broadcast"}

\* the positions of the control requests in the log
ControlRequests == {i \in 1..Len(log) : log[i].req \in ControlKinds}

\* the device has the relay code and none of the dimmable codes
RelayOnly(d) == 7 \in CodesOf(d) /\ CodesOf(d) \cap {4, 6, 8} = {}

FadeRequested == args.fade > 0

\* the level an on/off command asks for
Level(on) == IF on THEN 100 ELSE 0

(***************************************************************************)
(* C11: device on/off sends {switchable: true|false} to a device that is   *)
(* classified a relay without dimming, and to every other device           *)
(* {dimmable: 100|0}, or {dimmableWithFade: {dimValue: 100|0, fadeTime}}   *)
(* when a fade is requested; a scene recall sends {scene: n}, or           *)
(* {sceneWithFade: {scene: n, fadeTime}} with a fade, whatever the         *)
(* devices are.  Each command sends one control request, addressed to the  *)
(* device or zone it names.                                                *)
(***************************************************************************)
C11_PayloadByIntentAndCapability ==
    /\ (op \in {"device_on", "device_off"} /\ ControlRequests # {}) =>
        LET on == op = "device_on"
            sent == log[Len(log)]
        IN  /\ ControlRequests = {Len(log)}
            /\ sent.req = "control_device"
            /\ sent.id = args.id
            /\ sent.payload =
                 IF RelayOnly(device) THEN [switchable |-> on]
                 ELSE IF FadeRequested
                      THEN [dimmableWithFade |-> [dimValue |-> Level(on), fadeTime |-> args.fade]]
                      ELSE [dimmable |-> Level(on)]
    /\ op = "zone_recall" =>
        /\ Len(log) = 1
        /\ log[1].req = "control_zone"
        /\ log[1].id = args.id
        /\ log[1].payload =
             IF FadeRequested
             THEN [sceneWithFade |-> [scene |-> args.scene, fadeTime |-> args.fade]]
             ELSE [scene |-> args.scene]

\* a pure relay turned on with a fade asked for: the switch payload, no fade
C11_Witness ==
    /\ op = "device_on"
    /\ RelayOnly(device)
    /\ FadeRequested
    /\ Len(log) = 2
    /\ log[2].ok
    /\ log[2].payload = [switchable |-> TRUE]
    /\ result = Returned(0)

(***************************************************************************)
(* The devices a fan-out command reaches: the members of the zone, or for  *)
(* all-off the whole directory (of the line asked for, if any).            *)
(***************************************************************************)
FanOutOps == {"zone_on", "zone_off", "all_off"}

FanOutMembers ==
    IF op = "all_off"
    THEN {directory[i] : i \in {j \in 1..Len(directory) :
                                  args.line = Null \/ directory[j].line = args.line.v}}
    ELSE Elems(zone_members(zone, directory, TRUE).result)

\* the payload the per-device mapping gives device d for the intent of the command
PerDevicePayload(d) ==
    IF op = "zone_on"
    THEN device_on_payload(classify_device(d), args.fade)
    ELSE device_off_payload(classify_device(d), args.fade)

(***************************************************************************)
(* C12 as stated: a fan-out command (zone on, zone off, all-off) applies   *)
(* the payload mapping per device after classification, so every member    *)
(* is covered by a control request carrying the payload of its own         *)
(* capability profile.                                                     *)
(***************************************************************************)
C12_Original ==
    op \in FanOutOps =>
        \A d \in FanOutMembers :
            \E i \in ControlRequests : log[i].payload = PerDevicePayload(d)

(***************************************************************************)
(* C12 amended: a fan-out command issues exactly one request, a control    *)
(* request to the zone or broadcast endpoint, without requesting the       *)
(* directory or any device and without classifying; its single payload     *)
(* carries both the switch key and the dim key (dimmable, or               *)
(* dimmableWithFade when a fade is requested), whatever devices the        *)
(* command reaches.                                                        *)
(***************************************************************************)
C12_OnePayloadForWholeCommand ==
    op \in FanOutOps =>
        LET on == op = "zone_on"
        IN  /\ Len(log) = 1
            /\ log[1].req = IF op = "all_off" THEN "control_broadcast" ELSE "control_zone"
            /\ log[1].payload =
                 IF FadeRequested
                 THEN [dimmableWithFade |-> [dimValue |-> Level(on), fadeTime |-> args.fade],
                       switchable |-> on]
                 ELSE [dimmable |-> Level(on), switchable |-> on]

\* zone off reaching a pure relay and an LED dimmer: one request, both keys
C12_Witness ==
    /\ op = "zone_off"
    /\ \E d \in FanOutMembers : RelayOnly(d)
    /\ \E d \in FanOutMembers : 6 \in CodesOf(d)
    /\ Len(log) = 1
    /\ log[1].ok
    /\ log[1].payload = [dimmable |-> 0, switchable |-> FALSE]

(***************************************************************************)
(* The order of a list, and a list turned around.                          *)
(***************************************************************************)
\* the key of a record: line, address, id, a missing one counting as 0
SortKey(d) ==
    <<IF "line" \in DOMAIN d THEN d.line ELSE 0,
      IF "address" \in DOMAIN d THEN d.address ELSE 0,
      IF "id" \in DOMAIN d THEN d.id ELSE 0>>

\* lexicographic order of two keys
KeyBefore(a, b) ==
    \/ a[1] < b[1]
    \/ a[1] = b[1] /\ a[2] < b[2]
    \/ a[1] = b[1] /\ a[2] = b[2] /\ a[3] < b[3]

RECURSIVE Reversed(_)
Reversed(s) == IF s = <<>> THEN <<>> ELSE Append(Reversed(Tail(s)), Head(s))

(***************************************************************************)
(* C13: zone_members returns its members in ascending order of the key     *)
(* (line, address, id), a missing line, address or id counting as 0, and   *)
(* the same list comes back when the zone's targets and the directory      *)
(* listing are both given in the opposite order.                           *)
(***************************************************************************)
C13_SortedByLineAddressId ==
    op = "zone_members" =>
        /\ \A i \in 1..Len(result) : \A j \in (i + 1)..Len(result) :
               KeyBefore(SortKey(result[i]), SortKey(result[j]))
        /\ result = zone_members([zone EXCEPT !.targets = Reversed(@)],
                                 Reversed(directory), log[1].ok).result

\* listed as A, B, D: returned as D (no address), B (no line), A (line 1)
C13_Witness ==
    /\ op = "zone_members"
    /\ directory = <<OrderDevA, OrderDevB, OrderDevD>>
    /\ Len(zone.targets) = 3
    /\ result = <<OrderDevD, OrderDevB, OrderDevA>>

(***************************************************************************)
(* C14: when the device-directory request fails, zone_members returns the  *)
(* empty list, having issued that one request only, whatever targets the   *)
(* zone has and whatever the controller's directory holds.                 *)
(***************************************************************************)
C14_DirectoryFailureGivesNoMembers ==
    (op = "zone_members" /\ ~log[1].ok) =>
        /\ result = <<>>
        /\ log = <<[id |-> 0, ok |-> FALSE, req |-> "devices"]>>

\* a zone with an explicit device target and a broadcast target, devices listed
C14_Witness ==
    /\ op = "zone_members"
    /\ ~log[1].ok
    /\ ExplicitIdsOf(zone) # {}
    /\ BroadcastFlag(zone)
    /\ Len(directory) = 3
    /\ result = <<>>

(***************************************************************************)
(* What scan wait saw last, read off the state.                            *)
(***************************************************************************)
\* two words agree letter by letter, case aside
SameWord(a, b) ==
    /\ Len(a) = Len(b)
    /\ \A i \in 1..Len(a) : LowerChar(a[i]) = LowerChar(b[i])

\* the status word of a response ("" when the key is missing or null)
StatusWord(st) == IF st.status.t = "str" THEN st.status.v ELSE <<>>

\* the response reports one of the terminal states
ReportsTerminal(st) ==
    \E w \in SuccessTerminal \cup OtherTerminal : SameWord(StatusWord(st), w)

\* the overall timeout is set and more than that has elapsed at time now
OverallTimeoutElapsed(now) == args.timeout > 0 /\ now - start > args.timeout

C16_Original ==
    (args.cmd = "scan_wait" /\ args.timeout > 0 /\ pc = "poll") =>
        clock - start <= args.timeout + args.interval

(***************************************************************************)
(* C17 as stated: every list-returning call takes a response that is a     *)
(* bare JSON array as the list itself and raises nothing: the calls on     *)
(* schedules, trigger actions, sequences, circadians, sensors and          *)
(* timezones return the array, the zones listing shows it, and             *)
(* zone_members and zone_scene_numbers resolve the zone against it as      *)
(* the device directory.                                                   *)
(***************************************************************************)
C17_Original ==
    (op \in AutomationCmds \cup DirectoryCmds /\ body.t = "list") =>
        /\ IsValue(result)
        /\ result.value =
             IF op = "zone_members_body"
             THEN zone_members(zone, body.v, TRUE).result
             ELSE IF op = "zone_scene_numbers_body"
             THEN zone_scene_numbers(zone, body.v, TRUE, {}).result
             ELSE body.v

(***************************************************************************)
(* C18 as stated: list_schedules, get_trigger_actions, get_sequences and   *)
(* get_circadians return the empty list, raising nothing, when the         *)
(* successful response has an empty body or a body that is not JSON.       *)
(***************************************************************************)
C18_Original ==
    (/\ op \in {"list_schedules", "get_trigger_actions", "get_sequences", "get_circadians"}
     /\ body.t \in {"empty", "invalid"}) =>
        result = Value(<<>>)

(***************************************************************************)
(* What is wrong with a command line, read off its arguments.              *)
(***************************************************************************)
IsDigit(c) == c \in {"0", "1", "2", "3", "4", "5", "6", "7", "8", "9"}

\* digits, one colon, digits: the form of line:address and of HH:MM
TwoNumbers(cs) ==
    \E k \in 2..(Len(cs) - 1) :
        /\ cs[k] = ":"
        /\ \A i \in (1..Len(cs)) \ {k} : IsDigit(cs[i])

NoTargetGiven(a) == a.device = <<>> /\ ~a.broadcast

UnusableFile(f) == f.t \in {"missing", "invalid"}

InvalidInput(a) ==
    CASE a.cmd = "trigger_create" ->
            \/ \E i \in 1..Len(a.src_d16gear) : ~TwoNumbers(a.src_d16gear[i])
            \/ (a.src_device = <<>> /\ a.src_d16gear = <<>>)
            \/ NoTargetGiven(a)
      [] a.cmd = "sequence_create" ->
            \/ UnusableFile(a.steps_json)
            \/ (a.steps_json.t = "absent" /\ (a.step = "none" \/ NoTargetGiven(a)))
      [] a.cmd = "circadian_create" ->
            \/ NoTargetGiven(a)
            \/ UnusableFile(a.longest_json)
            \/ UnusableFile(a.shortest_json)
      [] a.cmd = "schedule_add_dusk" -> NoTargetGiven(a)
      [] a.cmd = "schedule_add_off" ->
            \/ NoTargetGiven(a)
            \/ (a.time.t = "str" /\ ~TwoNumbers(a.time.v))
      [] OTHER -> FALSE

CreateOps ==
    {"trigger_create", "sequence_create", "circadian_create",
     "schedule_add_dusk", "schedule_add_off"}

(***************************************************************************)
(* C19 as stated: a create command given invalid input (a malformed        *)
(* line:address source, no source or no target for trigger-create, no      *)
(* step flag or no target for sequence-create, no target for               *)
(* circadian-create, schedule-add-dusk or schedule-add-off, a --time not   *)
(* in HH:MM form, an unreadable or unparsable JSON file) ends with an      *)
(* error and has issued no HTTP request.                                   *)
(***************************************************************************)
C19_Original ==
    (op \in CreateOps /\ InvalidInput(args)) =>
        /\ log = <<>>
        /\ result # Returned(0)

\* a set-url run that was given the URL u and started with no usable URL
\* in the config, with no other set-url run since
SetFromUnconfigured(u) == prev = SetUrlRun(u, TRUE)

\* the last run was a command without --url
RanWithoutUrlOption == op \in {"get_url", "scan_status"} /\ args.url = Null

(***************************************************************************)
(* C20 as stated: once `config controller set-url U` has run with no       *)
(* controller URL in the config file (and no --url), U is stored, and      *)
(* every later command run without --url resolves the controller URL to U  *)
(* with source "config": get-url prints U and "config", and the request    *)
(* of scan status goes to U.                                               *)
(***************************************************************************)
C20_Original ==
    \A u \in Urls \ {<<>>} :
        /\ (SetFromUnconfigured(u) /\ op = "set_url") =>
                /\ result = Returned(0)
                /\ config = File(S_header \o <<"\n">> \o S_urlAssign \o u \o <<"\"", "\n">>)
        /\ (SetFromUnconfigured(u) /\ RanWithoutUrlOption) =>
                IF op = "get_url"
                THEN result = Value(Resolved(u, "config"))
                ELSE Len(log) = 1 /\ log[1].base = u

(***************************************************************************)
(* The fade of a control payload.                                          *)
(***************************************************************************)
ControlOps == {"device_on", "device_off", "zone_recall", "zone_on", "zone_off", "all_off"}

\* the payload of the control request of the run
SentPayload == log[Len(log)].payload

\* the payload is of the fade-aware variant, with the given fadeTime
FadeAware(p, fade) ==
    \/ "dimmableWithFade" \in DOMAIN p /\ p.dimmableWithFade.fadeTime = fade
    \/ "sceneWithFade" \in DOMAIN p /\ p.sceneWithFade.fadeTime = fade

\* the payload is of the plain variant
PlainVariant(p) ==
    /\ "dimmableWithFade" \notin DOMAIN p
    /\ "sceneWithFade" \notin DOMAIN p
    /\ "dimmable" \in DOMAIN p \/ "scene" \in DOMAIN p

\* the run sent a control request that carries a level or a scene
SentLevelOrScene ==
    /\ op \in ControlOps
    /\ ControlRequests # {}
    /\ ~(op \in {"device_on", "device_off"} /\ RelayOnly(device))

(***************************************************************************)
(* C21 as stated: the fade-aware variant (dimmableWithFade /               *)
(* sceneWithFade, fadeTime the requested duration) is sent for every       *)
(* requested fade other than 0, nonzero values that are not positive       *)
(* included, and the plain variant only for a fade of 0.                   *)
(***************************************************************************)
C21_Original ==
    SentLevelOrScene =>
        IF args.fade # 0 THEN FadeAware(SentPayload, args.fade)
        ELSE PlainVariant(SentPayload)

(***************************************************************************)
(* C21 amended: the fade-aware variant is sent exactly when the requested  *)
(* fade is greater than 0, with fadeTime the requested duration; a fade    *)
(* of 0 and a negative fade both send the plain variant (dimmable /        *)
(* scene).  A relay without dimming gets the switch payload of device      *)
(* on/off whatever the fade.                                               *)
(***************************************************************************)
C21_FadeVariantOnlyForPositiveFade ==
    /\ SentLevelOrScene =>
          IF args.fade > 0 THEN FadeAware(SentPayload, args.fade)
          ELSE PlainVariant(SentPayload)
    /\ (op \in {"device_on", "device_off"} /\ ControlRequests # {} /\ RelayOnly(device)) =>
          SentPayload = [switchable |-> (op = "device_on")]

\* all-off with a negative fade: the plain payload
C21_Witness ==
    /\ op = "all_off"
    /\ args.fade < 0
    /\ Len(log) = 1
    /\ SentPayload = [dimmable |-> 0, switchable |-> FALSE]

(***************************************************************************)
(* Ill-formed entries and the lists without them.                          *)
(***************************************************************************)
RecognizedTypeNames == DeviceTypeNames \cup GroupTypeNames \cup BroadcastTypeNames

\* the type of a target names one of the recognized kinds (a missing or empty
\* type is the device kind)
TypeRecognized(t) ==
    /\ Get(t.type).t \in {"str", "null"}
    /\ Lower(StrOrEmpty(Get(t.type))) \in RecognizedTypeNames

\* a target that is an object of a recognized type, with an integer id when
\* it is of the device or group kind
WellFormedTarget(t) ==
    /\ t.t = "obj"
    /\ TypeRecognized(t)
    /\ Lower(StrOrEmpty(Get(t.type))) \in DeviceTypeNames \cup GroupTypeNames => IsInt(Get(t.id))

\* a scene entry that is an integer, or an object with an integer under id,
\* scene or number
WellFormedScene(s) ==
    \/ IsInt(s)
    \/ s.t = "obj" /\ (IsInt(Get(s.id)) \/ IsInt(Get(s.scene)) \/ IsInt(Get(s.number)))

WithoutIllFormedTargets(z) == [z EXCEPT !.targets = SelectSeq(z.targets, WellFormedTarget)]

WithoutIllFormedScenes(d) ==
    IF "scenes" \in DOMAIN d
    THEN [d EXCEPT !.scenes = SelectSeq(d.scenes, WellFormedScene)]
    ELSE d

\* the ids whose detail request failed in the run
FailedDetails == {log[i].id : i \in {j \in 1..Len(log) : log[j].req = "device" /\ ~log[j].ok}}

(***************************************************************************)
(* C22 as stated: ill-formed entries (a target that is no object, a        *)
(* target of unrecognized type, a device or group target without an        *)
(* integer id, a scene entry of unrecognized shape) are skipped one by     *)
(* one without error: zone_members, zone_scene_numbers and                 *)
(* device_scene_numbers return what they return with those entries         *)
(* removed, after the directory request that every resolution issues.      *)
(***************************************************************************)
C22_Original ==
    /\ op = "zone_members" =>
          /\ Len(log) = 1
          /\ result = zone_members(WithoutIllFormedTargets(zone), directory, log[1].ok).result
    /\ op = "zone_scene_numbers" =>
          /\ Len(log) >= 1
          /\ result = zone_scene_numbers(WithoutIllFormedTargets(zone), directory, log[1].ok,
                                         FailedDetails).result
    /\ op = "device_scene_numbers" =>
          result = device_scene_numbers(WithoutIllFormedScenes(device))

(***************************************************************************)
(* zones enumerate: the requests of a run, by position.                    *)
(***************************************************************************)
SaveOffset == IF args.restore THEN 1 ELSE 0
CycleLength == IF args.end >= args.start THEN args.end - args.start + 1 ELSE 0

\* the payload the i-th request of an undisturbed run carries
Planned(i) ==
    IF args.restore /\ i = 1 THEN [saveToScene |-> RestoreScene]
    ELSE IF i - SaveOffset <= CycleLength THEN [scene |-> args.start + (i - SaveOffset) - 1]
    ELSE [scene |-> RestoreScene]

PlannedLength == SaveOffset + CycleLength + SaveOffset

\* the log follows the plan as far as it goes
LogFollowsPlan ==
    \A i \in 1..Len(log) :
        log[i].req = "control_zone" /\ log[i].id = args.id /\ log[i].payload = Planned(i)

Interrupted == op = "zone_enumerate" /\ pc.raised = "KeyboardInterrupt"
MidCycle == pc.at \in {"recall", "sleep"}

\* C23: an interrupt ends the run with exit code 130 and no step of the
\* command follows it; interrupted in the cycle at scene s, the run has
\* issued at most the save and the recalls of --start..s, in order, so no
\* later scene and no restore recall, with --restore or without.
C23_InterruptEndsTheRun ==
    Interrupted =>
        /\ result = Returned(130)
        /\ ~ENABLED NextEnumerate
        /\ LogFollowsPlan
        /\ MidCycle => Len(log) <= SaveOffset + (pc.s - args.start) + 1

C23_Witness ==
    /\ Interrupted
    /\ pc.at = "sleep"
    /\ args.restore
    /\ pc.s < args.end
    /\ Len(log) = 3
    /\ log[3].ok

\* C28: a run issues the recalls of --start..--end in ascending order, once
\* each, whatever fails, between saveToScene 15 and a recall of scene 15
\* when --restore is given.
C28_Original ==
    (/\ op = "zone_enumerate"
     /\ pc.at = "return" \/ pc.raised \notin {"none", "KeyboardInterrupt"}) =>
        /\ LogFollowsPlan
        /\ Len(log) = PlannedLength

(***************************************************************************)
(* Repeated resolution: what one call did, read off the step.              *)
(***************************************************************************)
\* the step is a call of the client (the directory is the one it was served)
CallStep == directory' = directory /\ op' \in {"zone_members", "zone_scene_numbers"}

DirectoryRequests(l) == {i \in 1..Len(l) : l[i].req = "devices"}

\* the devices of dir the zone names, by id or by group, or all of them
MembersIn(z, dir) ==
    {d \in Elems(dir) : BroadcastFlag(z) \/ d.id \in ExplicitIdsOf(z) \/ InTargetedGroup(z, d)}

\* C24: every call of zone_members and zone_scene_numbers issues exactly
\* one directory request of its own, and its result is read off the
\* directory the controller holds during that call: the members are the
\* devices of that directory the zone names (none when the request
\* failed), the scene numbers are scene numbers of devices of that
\* directory and cover every member's.
C24_EachCallReadsTheDirectoryAfresh ==
    [][CallStep =>
        /\ Cardinality(DirectoryRequests(log')) = 1
        /\ log'[1].req = "devices"
        /\ op' = "zone_members" =>
               Elems(result') = IF log'[1].ok THEN MembersIn(zone, directory) ELSE {}
        /\ op' = "zone_scene_numbers" =>
               /\ Elems(result') \subseteq ScenesOfAll(Elems(directory))
               /\ log'[1].ok =>
                      ScenesOfAll(MembersIn(zone, directory)) \subseteq Elems(result')]_vars

\* devices 1 and 2 were the members of group 1; device 2 has left the group
\* since, and the next call returns device 1 only
C24_Witness ==
    /\ op = "zone_members"
    /\ prev.called
    /\ prev.log = <<DevicesReq(TRUE)>>
    /\ prev.result = <<Dev2, Dev1>>
    /\ log = <<DevicesReq(TRUE)>>
    /\ directory = <<Dev1, Dev2Moved>>
    /\ result = <<Dev1>>

(***************************************************************************)
(* devices on / off: the requests of one run.                              *)
(***************************************************************************)
DetailRequestsSent == {i \in 1..Len(log) : log[i].req = "device"}

\* C25: device on and device off issue exactly one detail request for the
\* device and then at most one control request for it; the control request
\* follows a detail request that succeeded and carries the payload of the
\* device's class; when the detail request fails there is no control
\* request and the run ends with the request's error.
C25_DetailThenAtMostOneControl ==
    op \in {"device_on", "device_off"} =>
        /\ Cardinality(DetailRequestsSent) = 1
        /\ log[1] = DeviceReq(args.id, log[1].ok)
        /\ Cardinality(ControlRequests) <= 1
        /\ \A i \in ControlRequests :
               /\ i = 2
               /\ log[1].ok
               /\ log[i].req = "control_device"
               /\ log[i].id = args.id
               /\ log[i].payload =
                      IF op = "device_on"
                      THEN device_on_payload(classify_device(device), args.fade)
                      ELSE device_off_payload(classify_device(device), args.fade)
        /\ ~log[1].ok => (Len(log) = 1 /\ result = Raised("RequestException"))

\* device off whose detail request failed
C25_Witness ==
    /\ op = "device_off"
    /\ log = <<DeviceReq(1, FALSE)>>
    /\ result = Raised("RequestException")

(***************************************************************************)
(* C26: for every zone and every device of the directory, the zone is      *)
(* listed for the device by _zones_for_device(d, [z]) exactly when the     *)
(* device is a member of zone_members(z), whatever the target types,       *)
(* broadcast and group targets included.                                   *)
(***************************************************************************)
C26_Original ==
    op = "zones_for_device" =>
        (Len(result) = 1 <=> device \in Elems(zone_members(zone, directory, TRUE).result))

(***************************************************************************)
(* poll_devices: the devices polled and the results, counted by id.        *)
(***************************************************************************)
PolledDevices == polled(args.ids, directory)

PollReturned == op = "poll_devices" /\ Len(log) >= 1 /\ (log[1].req = "devices" => log[1].ok)

ResultsOf(id, reached) ==
    {i \in 1..Len(result) : result[i].id = id /\ result[i].reachable = reached}

RequestsOf(id, ok) == {i \in 1..Len(log) : log[i] = DeviceReq(id, ok)}

PolledAs(id) == {i \in 1..Len(PolledDevices) : PolledDevices[i].id = id}

PollFlags == {"reachable", "latency_ms"}

\* r holds every field of d, and of detail before d
Overlays(r, d, detail) ==
    /\ DOMAIN r = DOMAIN d \cup DOMAIN detail \cup PollFlags
    /\ \A k \in DOMAIN detail : r[k] = detail[k]
    /\ \A k \in DOMAIN d \ DOMAIN detail : r[k] = d[k]

\* C27: poll_devices returns one result for each device polled (each entry
\* of the directory, or each given id); a result is reachable exactly when
\* the detail request of its device succeeded; a device whose detail
\* request failed is returned with its directory fields, one whose request
\* succeeded with the detail's fields laid over them; the results are in
\* ascending order of (line, address, id).
C27_OneResultPerPolledDevice ==
    PollReturned =>
        /\ Len(result) = Len(PolledDevices)
        /\ \A id \in 1..4 :
               /\ Cardinality(ResultsOf(id, TRUE)) = Cardinality(RequestsOf(id, TRUE))
               /\ Cardinality(ResultsOf(id, FALSE)) = Cardinality(RequestsOf(id, FALSE))
               /\ Cardinality(ResultsOf(id, TRUE) \cup ResultsOf(id, FALSE)) =
                      Cardinality(PolledAs(id))
        /\ \A i \in 1..Len(result) :
               \E j \in PolledAs(result[i].id) :
                   IF result[i].reachable
                   THEN \E detail \in DetailPool(PolledDevices[j]) :
                            Overlays(result[i], PolledDevices[j], detail)
                   ELSE Overlays(result[i], PolledDevices[j], <<>>)
        /\ \A i \in 1..Len(result) : \A j \in (i + 1)..Len(result) :
               \/ KeyBefore(SortKey(result[i]), SortKey(result[j]))
               \/ SortKey(result[i]) = SortKey(result[j])

\* devices 3, 2 listed; device 2 does not answer and stays with its
\* directory line 0, device 3 answers from line 2 and comes second
C27_Witness ==
    /\ op = "poll_devices"
    /\ args.ids = Null
    /\ directory = <<Dev3, Dev2>>
    /\ log = <<DevicesReq(TRUE), DeviceReq(3, TRUE), DeviceReq(2, FALSE)>>
    /\ Len(result) = 2
    /\ result[1].id = 2 /\ ~result[1].reachable /\ result[1].groups = <<1, 2>>
    /\ result[2].id = 3 /\ result[2].reachable /\ result[2].line = 2

(***************************************************************************)
(* status-queries set: the config fetched and the body sent.               *)
(***************************************************************************)
\* the config the run fetched: empty when the GET gave none
FetchedConfig == IF log[1].ok /\ body.t = "dict" THEN body.v ELSE <<>>

\* the fields given on the command line, by their key in the body
GivenFields ==
    (IF args.delay # Null THEN {"delayBetweenQueries"} ELSE {})
        \cup (IF args.status # "None" THEN {"queryStatus"} ELSE {})
        \cup (IF args.actual # "None" THEN {"queryActualLevel"} ELSE {})

GivenValue(k) ==
    IF k = "delayBetweenQueries" THEN args.delay.v
    ELSE IF k = "queryStatus" THEN args.status = "True"
    ELSE args.actual = "True"

\* C29: status-queries set issues GET, then POST, then PUT exactly when the
\* POST failed; POST and PUT carry the fetched config (empty when the GET
\* failed) with the given fields overridden and the others as fetched; a
\* failed PUT ends the run with its error.
C29_Original ==
    op = "statusq_set" =>
        /\ Len(log) \in {2, 3}
        /\ log[1].req = "get_status_queries_line"
        /\ log[2].req = "post_status_queries_line"
        /\ Len(log) = 3 <=> ~log[2].ok
        /\ Len(log) = 3 => log[3].req = "put_status_queries_line"
        /\ \A i \in 2..Len(log) :
               /\ DOMAIN log[i].payload = DOMAIN FetchedConfig \cup GivenFields
               /\ \A k \in GivenFields : log[i].payload[k] = GivenValue(k)
               /\ \A k \in DOMAIN FetchedConfig \ GivenFields :
                      log[i].payload[k] = FetchedConfig[k]
        /\ (Len(log) = 3 /\ ~log[3].ok) => result = Raised("RequestException")

(***************************************************************************)
(* The update commands: the options given and the fields they stand for.   *)
(***************************************************************************)
UpdateOps == {"trigger_update", "sequence_update", "circadian_update"}

TargetsGiven == args.device # <<>> \/ args.broadcast

\* the model fields the options of the command line stand for
SuppliedFields ==
    (IF args.name # Null THEN {"name"} ELSE {})
        \cup (IF args.enabled # "None" THEN {"enabled"} ELSE {})
        \cup (IF op = "trigger_update" /\ (args.src_device # <<>> \/ args.src_d16gear # <<>>)
              THEN {"sources"} ELSE {})
        \cup (IF op \in {"trigger_update", "circadian_update"} /\ TargetsGiven
              THEN {"targets"} ELSE {})
        \cup (IF op = "sequence_update" /\ args.loop # "None" THEN {"loop"} ELSE {})
        \cup (IF op = "sequence_update" /\ args.repeat # Null THEN {"repeat"} ELSE {})
        \cup (IF op = "sequence_update" /\ (args.steps_json # NoOption \/ args.step # "none")
              THEN {"steps"} ELSE {})
        \cup (IF op = "circadian_update" /\ args.longest_json # NoOption
              THEN {"longest"} ELSE {})
        \cup (IF op = "circadian_update" /\ args.shortest_json # NoOption
              THEN {"shortest"} ELSE {})

IsUpdatePut(r) ==
    /\ r.req = (IF op = "trigger_update" THEN "update_trigger_action"
                ELSE IF op = "sequence_update" THEN "update_sequence"
                ELSE "update_circadian")
    /\ r.id = args.id

\* a replacement step (--on, --off, --scene) given without a target
StepWithoutTargets ==
    op = "sequence_update" /\ args.steps_json = NoOption /\ args.step # "none" /\ ~TargetsGiven

\* an option whose value cannot be read: a source that is not line:address,
\* a file that is missing or is not JSON
UnreadableOption ==
    \/ op = "trigger_update" /\ ~IsValue(collect_sources(args))
    \/ op = "sequence_update" /\ args.steps_json \in {MissingFile, InvalidFile}
    \/ op = "circadian_update" /\ args.longest_json \in {MissingFile, InvalidFile}
    \/ op = "circadian_update" /\ args.shortest_json \in {MissingFile, InvalidFile}

\* C30 as stated: no field option, no request and exit code 0; otherwise
\* exactly one PUT whose body has exactly the supplied fields.
C30_Original ==
    op \in UpdateOps =>
        IF SuppliedFields = {}
        THEN log = <<>> /\ result = Returned(0)
        ELSE /\ Len(log) = 1
             /\ IsUpdatePut(log[1])
             /\ DOMAIN log[1].payload = SuppliedFields

\* C30: an update command whose options stand for no field issues no
\* request and returns 0; a replacement step without targets returns 2 and
\* an unreadable option ends the command with its error, both without a
\* request; otherwise the command issues exactly one PUT, whose body has
\* exactly the supplied fields with the values given and no other key.
C30_OnePutOfTheSuppliedFields ==
    op \in UpdateOps =>
        IF UnreadableOption
        THEN log = <<>> /\ "raised" \in DOMAIN result
        ELSE IF StepWithoutTargets
        THEN log = <<>> /\ result = Returned(2)
        ELSE IF SuppliedFields = {}
        THEN log = <<>> /\ result = Returned(0)
        ELSE /\ Len(log) = 1
             /\ IsUpdatePut(log[1])
             /\ DOMAIN log[1].payload = SuppliedFields
             /\ "name" \in SuppliedFields => log[1].payload["name"] = args.name
             /\ "enabled" \in SuppliedFields =>
                    log[1].payload["enabled"] = (args.enabled = "True")
             /\ "targets" \in SuppliedFields =>
                    log[1].payload["targets"] = collect_targets(args)

\* sequence-update 7 --name a --on --device 1: one PUT of name and steps
C30_Witness ==
    /\ op = "sequence_update"
    /\ args.name = JStr(<<"a">>)
    /\ args.enabled = "None" /\ args.loop = "None" /\ args.repeat = Null
    /\ args.step = "on" /\ args.device = <<1>> /\ args.steps_json = NoOption
    /\ Len(log) = 1
    /\ log[1].req = "update_sequence"
    /\ DOMAIN log[1].payload = {"name", "steps"}
    /\ result = Returned(0)
====
